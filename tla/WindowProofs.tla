----------------------------- MODULE WindowProofs -----------------------------
(* Theorems about what one library window holds. Its forms: while requests are   *)
(* under way every mark and every guess is accounted for, and nothing typed or   *)
(* drawn is taken by an answer that did not store it, for any items, any number  *)
(* of dialogs and acts, and answers in any order, some of them refused. Its      *)
(* views: the Timeline, the table's columns and the keys, for any sessions,      *)
(* columns and bindings.                                                         *)
EXTENDS Forms, Views, FiniteSetTheorems, SequenceTheorems, FunctionTheorems, WellFoundedInduction, TLAPS

FormsNext == DialogsNext \/ PanelNext \/ ItemsNext

\* One window's dialogs, inspector and items, all at once.
FormsSpec == FormsInit /\ [][FormsNext]_formsVars

-----------------------------------------------------------------------------
(* The inductive invariant.                                                     *)

Panels == [item : FormItems, panel : Nat, forms : Nat, editor : Editors \cup {Nothing},
           mirror : Texts \cup {NoText}, noting : BOOLEAN]
Marks == {"sending", "failed", "verifying", "rebuilding"} \cup Attempts

FormsTypeOK ==
    /\ dialog \in Dialogs \cup {Nothing} /\ opened \in Nat /\ panel \in Panels
    /\ drafts \in [FormItems -> Texts \cup {NoText}] /\ marks \in [FormItems -> SUBSET Marks]
    /\ reader \in [FormItems -> [open : BOOLEAN, edited : BOOLEAN]]
    /\ guess \in Guesses \cup {Nothing} /\ posts \in SUBSET Requests /\ acts \in Nat

\* A request is of an item unless it is a dialog's or a rebuild of all; only a send and a
\* deletion wait for a reader, and only the forms store a text.
Formed(p) ==
    /\ p.form \notin {"dialog", "rebuild"} => p.item \in FormItems
    /\ p.form = "dialog" => p.item = Nothing
    /\ p.form \in {"dialog", "note", "mirror", "editor"} => p.text \in Texts
    /\ p.form \notin {"send", "delete"} => p.text \notin {"closing", "sent"}

\* The marks of an item, without a count of sets.
MarkedWell(i) ==
    /\ "sending" \in marks[i] => Posted("send", i)
    /\ "verifying" \in marks[i] => Posted("verify", i)
    /\ "rebuilding" \in marks[i] => Posted("rebuild", i) \/ Posted("rebuild", Nothing)
    /\ "extracting" \in marks[i] <=> Posted("extract", i)
    /\ \A m, k \in marks[i] \cap Attempts : m = k
    /\ \A p, q \in posts : p.form = "extract" /\ q.form = "extract" /\ p.item = i /\ q.item = i => p = q

\* The request of a run of guesses is of one item the run has not come to yet.
Asking(g, p) ==
    /\ g # Nothing /\ ~g.told /\ p.item \notin g.left \cup g.guessed \cup g.failed
    /\ g.asked = g.left \cup g.guessed \cup g.failed \cup {p.item}

GuessWell ==
    /\ \A p \in posts : p.form = "guess" => Asking(guess, p)
    /\ \A p, q \in posts : p.form = "guess" /\ q.form = "guess" => p = q
    /\ guess # Nothing =>
          /\ guess.left \cap (guess.guessed \cup guess.failed) = {} /\ guess.guessed \cap guess.failed = {}
          /\ guess.told => guess.left = {} /\ guess.guessed \cup guess.failed = guess.asked

AccountInv == FormsTypeOK /\ (\A p \in posts : Formed(p)) /\ (\A i \in FormItems : MarkedWell(i)) /\ GuessWell

\* While a user lets a text be stored before going on with it, the request under way for a
\* dialog, a note, a new mirror or the metadata editor has the text the window shows.
DialogHeld ==
    /\ dialog # Nothing => dialog.n <= opened
    /\ \A p \in posts : p.form = "dialog" =>
          p.n <= opened /\ (dialog # Nothing /\ dialog.n = p.n => dialog.saving /\ dialog.text = p.text)
    /\ \A p, q \in posts : p.form = "dialog" /\ q.form = "dialog" /\ p.n = q.n => p = q
NotesHeld ==
    /\ \A p \in posts : p.form = "note" => drafts[p.item] = p.text
    /\ \A p, q \in posts : p.form = "note" /\ q.form = "note" /\ p.item = q.item => p = q
MirrorHeld ==
    \A p \in posts : p.form = "mirror" =>
        p.n <= panel.forms /\ (p.n = panel.forms => p.item = panel.item /\ p.text = panel.mirror)
EditorHeld ==
    /\ panel.panel <= panel.forms
    /\ \A p \in posts : p.form = "editor" =>
          /\ p.n <= panel.forms
          /\ p.n = panel.panel => /\ p.item = panel.item
                                  /\ panel.editor # Nothing => panel.editor.saving /\ panel.editor.text = p.text
    /\ \A p, q \in posts : p.form = "editor" /\ q.form = "editor" /\ p.n = q.n => p = q

KeptInv == DialogHeld /\ NotesHeld /\ MirrorHeld /\ EditorHeld

-----------------------------------------------------------------------------
(* Types.                                                                       *)

\* A new request is one of Requests.
LEMMA PostTyped ==
    ASSUME NEW p \in Requests, posts \in SUBSET Requests, Post(p)
    PROVE  posts' \in SUBSET Requests
BY DEF Post

\* What each request stands for when it ends keeps the types.
LEMMA EndsTyped ==
    ASSUME FormsTypeOK, NEW p \in posts, Formed(p), NEW ok \in BOOLEAN
    PROVE  /\ CloseDialog(p) \in Dialogs \cup {Nothing} /\ DialogRefused(p) \in Dialogs \cup {Nothing}
           /\ PanelAccepted(p) \in Panels /\ PanelRefused(p) \in Panels
           /\ DraftsAccepted(p) \in [FormItems -> Texts \cup {NoText}]
<1> USE DEF FormsTypeOK
<1>1. CloseDialog(p) \in Dialogs \cup {Nothing} BY DEF CloseDialog
<1>2. DialogRefused(p) \in Dialogs \cup {Nothing} BY DEF DialogRefused, Dialogs
<1>3. PanelAccepted(p) \in Panels BY DEF PanelAccepted, Panels, NoText
<1>4. PanelRefused(p) \in Panels BY DEF PanelRefused, Panels, Editors
<1>5. DraftsAccepted(p) \in [FormItems -> Texts \cup {NoText}] BY DEF DraftsAccepted, NoText
<1> QED BY <1>1, <1>2, <1>3, <1>4, <1>5

\* So do the marks.
LEMMA MarksTyped ==
    ASSUME FormsTypeOK, NEW p \in posts, Formed(p)
    PROVE  MarksAccepted(p) \in [FormItems -> SUBSET Marks] /\ MarksRefused(p) \in [FormItems -> SUBSET Marks]
<1> USE DEF FormsTypeOK
<1>1. \A items, ms : Unmark(items, ms) \in [FormItems -> SUBSET Marks] BY DEF Unmark
<1>2. \A m \in Attempts : \A i : Attempt(i, m) \in [FormItems -> SUBSET Marks] BY DEF Attempt, Marks
<1>3. MarksEnded(p) \in [FormItems -> SUBSET Marks] BY <1>1 DEF MarksEnded
<1>4. \A ok : ExtractionEnded(p, ok) \in [FormItems -> SUBSET Marks] BY <1>2 DEF ExtractionEnded, Attempts
<1>5. MarksAccepted(p) \in [FormItems -> SUBSET Marks] BY <1>1, <1>3, <1>4 DEF MarksAccepted
<1>6. MarksRefused(p) \in [FormItems -> SUBSET Marks] BY <1>3, <1>4 DEF MarksRefused, Marks
<1> QED BY <1>5, <1>6

\* And so does the run of guesses, whose next request is one of Requests.
LEMMA GuessTyped ==
    ASSUME FormsTypeOK, NEW p \in posts, Formed(p), p.form = "guess", Asking(guess, p), NEW ok \in BOOLEAN, GuessEnded(p, ok)
    PROVE  /\ guess' \in Guesses /\ posts' \in SUBSET Requests
           /\ \A q \in posts' : q \in posts \/ (q.form = "guess" /\ q.item \in FormItems /\ q.text = p.text)
           /\ \A q \in posts : q.form # "guess" => q \in posts'
<1> DEFINE g == GuessNext(guess, ok, p.item)
<1>1. posts \in SUBSET Requests /\ p \in Requests /\ p.item \in FormItems /\ guess \in Guesses
  BY DEF FormsTypeOK, Formed, Asking
<1>2. g \in Guesses
  <2>1. guess.guessed \cup {p.item} \in SUBSET FormItems /\ guess.failed \cup {p.item} \in SUBSET FormItems
    BY <1>1 DEF Guesses
  <2>2. CASE ok = TRUE BY <1>1, <2>1, <2>2 DEF GuessNext, Guesses
  <2>3. CASE ok = FALSE BY <1>1, <2>1, <2>3 DEF GuessNext, Guesses
  <2> QED BY <2>2, <2>3
<1>5. g.told \in BOOLEAN BY <1>2 DEF Guesses
<1>3. CASE g.left = {}
  <2>1. guess' = [g EXCEPT !.told = TRUE] /\ posts' = posts \ {p} BY <1>3 DEF GuessEnded
  <2> HIDE DEF g
  <2>2. guess' \in Guesses BY <1>2, <2>1 DEF Guesses
  <2> QED BY <1>1, <2>1, <2>2
<1>4. CASE g.left # {}
  <2>1. PICK i \in g.left : guess' = [g EXCEPT !.left = @ \ {i}] /\ posts' = (posts \ {p}) \cup {[p EXCEPT !.item = i]}
    BY <1>4 DEF GuessEnded
  <2>2. i \in FormItems BY <1>2 DEF Guesses
  <2>3. [p EXCEPT !.item = i] \in Requests BY <1>1, <2>2 DEF Requests
  <2>4. [p EXCEPT !.item = i].form = "guess" /\ [p EXCEPT !.item = i].item = i /\ [p EXCEPT !.item = i].text = p.text
    BY <1>1 DEF Requests
  <2> HIDE DEF g
  <2>5. guess' \in Guesses
    <3>1. g.left \ {i} \in SUBSET FormItems BY <1>2 DEF Guesses
    <3> QED BY <1>2, <2>1, <3>1 DEF Guesses
  <2>6. \A q \in posts' : q \in posts \/ q = [p EXCEPT !.item = i] BY <2>1
  <2>7. posts' \in SUBSET Requests BY <1>1, <2>3, <2>6
  <2>8. \A q \in posts : q.form # "guess" => q \in posts' BY <2>1
  <2> QED BY <2>2, <2>4, <2>5, <2>6, <2>7, <2>8
<1> QED BY <1>3, <1>4

-----------------------------------------------------------------------------
(* The steps, by what they do to the requests under way.                        *)

\* What the user does without a request.
Typing ==
    \/ \E kind \in {"name", "rules"} : OpenDialog(kind)
    \/ \E t \in Texts : TypeName(t) \/ TypeNote(t) \/ TypeMirror(t) \/ EditMetadata(t)
    \/ CancelName \/ Leave \/ CancelMetadata \/ PluginsRead
    \/ \E i \in FormItems : Select(i) \/ OpenReader(i)

\* What the user has stored, or deleted.
Storing == SubmitName \/ AddNote \/ AddMirror \/ SaveMetadata \/ \E i \in FormItems : DeleteItem(i)

\* What marks the items it is done to.
Marking(i) == SendToZotero(i) \/ Verify(i) \/ Rebuild(i) \/ ExtractWith(i)

LEMMA StepKinds ==
    ASSUME [FormsNext]_formsVars
    PROVE  \/ UNCHANGED formsVars \/ Typing \/ Storing \/ RebuildAll \/ Close \/ Accepted \/ Refused
           \/ \E i \in FormItems : Marking(i)
           \/ \E items \in SUBSET FormItems : GuessMetadata(items)
BY DEF FormsNext, DialogsNext, PanelNext, ItemsNext, Ends, Typing, Storing, Marking

LEMMA TypingQuiet ==
    ASSUME Typing
    PROVE  posts' = posts /\ marks' = marks /\ guess' = guess
BY DEF Typing, OpenDialog, TypeName, TypeNote, TypeMirror, EditMetadata, CancelName, Leave, CancelMetadata,
       PluginsRead, Select, OpenReader

\* The types a step of the user keeps.
LEMMA TypingTyped == ASSUME FormsTypeOK, Typing PROVE FormsTypeOK'
<1> USE DEF FormsTypeOK, Act
<1>1. ASSUME NEW kind \in {"name", "rules"}, OpenDialog(kind) PROVE FormsTypeOK'
  <2>1. opened + 1 \in Nat OBVIOUS
  <2>2. dialog' \in Dialogs BY <1>1, <2>1 DEF OpenDialog, Dialogs
  <2> QED BY <1>1, <2>1, <2>2 DEF OpenDialog
<1>2. ASSUME NEW t \in Texts, TypeName(t) PROVE FormsTypeOK' BY <1>2 DEF TypeName, Dialogs
<1>3. ASSUME NEW t \in Texts, TypeNote(t) PROVE FormsTypeOK' BY <1>3 DEF TypeNote, Panels
<1>4. ASSUME NEW t \in Texts, TypeMirror(t) PROVE FormsTypeOK' BY <1>4 DEF TypeMirror, Panels
<1>5. ShownAnew \in Panels
  <2>1. panel \in Panels /\ panel.forms + 1 \in Nat BY DEF Panels
  <2> QED BY <2>1 DEF ShownAnew, Panels, NoText
<1>6. ASSUME NEW t \in Texts, EditMetadata(t) PROVE FormsTypeOK'
  <2>1. [text |-> t, saving |-> FALSE] \in Editors BY DEF Editors
  <2>2. panel.editor # Nothing => [panel.editor EXCEPT !.text = t] \in Editors BY DEF Panels, Editors
  <2>3. panel' \in Panels
    <3>1. CASE panel.editor = Nothing
      <4>1. panel' = [ShownAnew EXCEPT !.editor = [text |-> t, saving |-> FALSE]] BY <1>6, <3>1 DEF EditMetadata
      <4> QED BY <1>5, <2>1, <4>1 DEF Panels
    <3>2. CASE panel.editor # Nothing
      <4>1. panel' = [panel EXCEPT !.editor = [panel.editor EXCEPT !.text = t]] BY <1>6, <3>2 DEF EditMetadata, Panels
      <4> QED BY <2>2, <3>2, <4>1 DEF Panels
    <3> QED BY <3>1, <3>2
  <2> QED BY <1>6, <2>3 DEF EditMetadata
<1>7. CASE CancelName BY <1>7 DEF CancelName
<1>8. CASE Leave BY <1>5, <1>8 DEF Leave
<1>9. CASE CancelMetadata BY <1>9 DEF CancelMetadata, Panels
<1>10. CASE PluginsRead BY <1>10 DEF PluginsRead
<1>11. ASSUME NEW i \in FormItems, Select(i) PROVE FormsTypeOK'
  <2>1. panel.forms + 1 \in Nat BY DEF Panels
  <2>2. panel' \in Panels BY <1>11, <2>1 DEF Select, NewPanel, Panels, NoText
  <2> QED BY <1>11, <2>2 DEF Select
<1>12. ASSUME NEW i \in FormItems, OpenReader(i) PROVE FormsTypeOK' BY <1>12 DEF OpenReader
<1> QED BY <1>1, <1>2, <1>3, <1>4, <1>6, <1>7, <1>8, <1>9, <1>10, <1>11, <1>12 DEF Typing

\* The request a storing step posts, and the types it keeps.
LEMMA StoringTyped ==
    ASSUME FormsTypeOK, Storing
    PROVE  /\ FormsTypeOK' /\ marks' = marks /\ guess' = guess
           /\ \E q \in Requests : /\ Post(q) /\ Formed(q)
                                  /\ q.form \in {"dialog", "note", "mirror", "editor", "delete"}
<1> USE DEF FormsTypeOK, Act
<1>1. CASE SubmitName
  <2> DEFINE q == [form |-> "dialog", item |-> Nothing, n |-> dialog.n, text |-> dialog.text]
  <2>1. dialog \in Dialogs /\ dialog' \in Dialogs BY <1>1 DEF SubmitName, Dialogs
  <2>2. q \in Requests /\ Formed(q) BY <1>1, <2>1 DEF SubmitName, Dialogs, Requests, Formed, Texts
  <2>3. Post(q) BY <1>1 DEF SubmitName
  <2> QED BY <1>1, <2>1, <2>2, <2>3, PostTyped DEF SubmitName
<1>2. CASE AddNote
  <2> DEFINE q == [form |-> "note", item |-> panel.item, n |-> panel.forms, text |-> drafts[panel.item]]
  <2>1. panel' \in Panels BY <1>2 DEF AddNote, Panels
  <2>2. q \in Requests /\ Formed(q) BY <1>2 DEF AddNote, Panels, Requests, Formed, Texts
  <2>3. Post(q) BY <1>2 DEF AddNote
  <2> QED BY <1>2, <2>1, <2>2, <2>3, PostTyped DEF AddNote
<1>3. CASE AddMirror
  <2> DEFINE q == [form |-> "mirror", item |-> panel.item, n |-> panel.forms, text |-> panel.mirror]
  <2>1. q \in Requests /\ Formed(q) BY <1>3 DEF AddMirror, Panels, Requests, Formed, Texts
  <2>2. Post(q) BY <1>3 DEF AddMirror
  <2> QED BY <1>3, <2>1, <2>2, PostTyped DEF AddMirror
<1>4. CASE SaveMetadata
  <2> DEFINE q == [form |-> "editor", item |-> panel.item, n |-> panel.panel, text |-> panel.editor.text]
  <2>1. panel.editor \in Editors BY <1>4 DEF SaveMetadata, Panels
  <2>2. [panel.editor EXCEPT !.saving = TRUE] \in Editors BY <2>1 DEF Editors
  <2>3. panel' = [panel EXCEPT !.editor = [panel.editor EXCEPT !.saving = TRUE]] BY <1>4 DEF SaveMetadata, Panels
  <2>4. panel' \in Panels BY <2>2, <2>3 DEF Panels
  <2>5. q \in Requests /\ Formed(q) BY <2>1 DEF Panels, Requests, Editors, Formed, Texts
  <2>6. Post(q) BY <1>4 DEF SaveMetadata
  <2> QED BY <1>4, <2>4, <2>5, <2>6, PostTyped DEF SaveMetadata
<1>5. ASSUME NEW i \in FormItems, DeleteItem(i)
      PROVE  /\ FormsTypeOK' /\ marks' = marks /\ guess' = guess
             /\ \E q \in Requests : /\ Post(q) /\ Formed(q)
                                    /\ q.form \in {"dialog", "note", "mirror", "editor", "delete"}
  <2> DEFINE q == [form |-> "delete", item |-> i, n |-> acts, text |-> "closing"]
  <2>1. q \in Requests /\ Formed(q) BY DEF Requests, Formed
  <2>2. Post(q) BY <1>5 DEF DeleteItem
  <2> QED BY <1>5, <2>1, <2>2, PostTyped DEF DeleteItem
<1> QED BY <1>1, <1>2, <1>3, <1>4, <1>5 DEF Storing

\* A marking step posts a request of its item, and marks it alone.
LEMMA MarkingTyped ==
    ASSUME FormsTypeOK, NEW i \in FormItems, Marking(i)
    PROVE  /\ FormsTypeOK' /\ guess' = guess
           /\ \E q \in Requests :
                 /\ Post(q) /\ Formed(q) /\ q.item = i
                 /\ \/ q.form = "send" /\ marks' = [marks EXCEPT ![i] = (@ \ {"failed"}) \cup {"sending"}]
                    \/ q.form = "verify" /\ marks' = Mark(i, "verifying")
                    \/ q.form = "rebuild" /\ marks' = Mark(i, "rebuilding")
                    \/ q.form = "extract" /\ marks' = Attempt(i, "extracting") /\ "extracting" \notin marks[i]
<1> USE DEF FormsTypeOK, Act
<1>1. CASE SendToZotero(i)
  <2> DEFINE q == [form |-> "send", item |-> i, n |-> acts, text |-> "closing"]
  <2>1. q \in Requests /\ Formed(q) BY DEF Requests, Formed
  <2>2. Post(q) BY <1>1 DEF SendToZotero
  <2>3. marks' \in [FormItems -> SUBSET Marks] BY <1>1 DEF SendToZotero, Marks
  <2> QED BY <1>1, <2>1, <2>2, <2>3, PostTyped DEF SendToZotero
<1>2. CASE Verify(i)
  <2> DEFINE q == [form |-> "verify", item |-> i, n |-> acts, text |-> NoText]
  <2>1. q \in Requests /\ Formed(q) BY DEF Requests, Formed, NoText
  <2>2. Post(q) BY <1>2 DEF Verify
  <2>3. marks' \in [FormItems -> SUBSET Marks] BY <1>2 DEF Verify, Mark, Marks
  <2> QED BY <1>2, <2>1, <2>2, <2>3, PostTyped DEF Verify
<1>3. CASE Rebuild(i)
  <2> DEFINE q == [form |-> "rebuild", item |-> i, n |-> acts, text |-> NoText]
  <2>1. q \in Requests /\ Formed(q) BY DEF Requests, Formed, NoText
  <2>2. Post(q) BY <1>3 DEF Rebuild
  <2>3. marks' \in [FormItems -> SUBSET Marks] BY <1>3 DEF Rebuild, Mark, Marks
  <2> QED BY <1>3, <2>1, <2>2, <2>3, PostTyped DEF Rebuild
<1>4. CASE ExtractWith(i)
  <2> DEFINE q == [form |-> "extract", item |-> i, n |-> acts, text |-> NoText]
  <2>1. q \in Requests /\ Formed(q) BY DEF Requests, Formed, NoText
  <2>2. Post(q) BY <1>4 DEF ExtractWith
  <2>3. marks' \in [FormItems -> SUBSET Marks] BY <1>4 DEF ExtractWith, Attempt, Marks, Attempts
  <2>4. FormsTypeOK' BY <1>4, <2>1, <2>2, <2>3, PostTyped DEF ExtractWith
  <2>5. /\ q.form = "extract" /\ q.item = i /\ guess' = guess
        /\ marks' = Attempt(i, "extracting") /\ "extracting" \notin marks[i]
    BY <1>4 DEF ExtractWith
  <2> HIDE DEF q
  <2> QED BY <2>1, <2>2, <2>4, <2>5
<1> QED BY <1>1, <1>2, <1>3, <1>4 DEF Marking

LEMMA RebuildAllTyped ==
    ASSUME FormsTypeOK, RebuildAll
    PROVE  /\ FormsTypeOK' /\ guess' = guess /\ marks' = [i \in FormItems |-> marks[i] \cup {"rebuilding"}]
           /\ \E q \in Requests : Post(q) /\ Formed(q) /\ q.form = "rebuild" /\ q.item = Nothing
<1> DEFINE q == [form |-> "rebuild", item |-> Nothing, n |-> acts, text |-> NoText]
<1>1. q \in Requests /\ Formed(q) BY DEF FormsTypeOK, Requests, Formed, NoText
<1>2. Post(q) BY DEF RebuildAll
<1>3. marks' \in [FormItems -> SUBSET Marks] BY DEF FormsTypeOK, RebuildAll, Marks
<1> QED BY <1>1, <1>2, <1>3, PostTyped DEF RebuildAll, FormsTypeOK, Act

\* A run of guesses begins with one request, for an item it asks for.
LEMMA GuessTypedFirst ==
    ASSUME FormsTypeOK, NEW items \in SUBSET FormItems, GuessMetadata(items)
    PROVE  /\ FormsTypeOK' /\ marks' = marks /\ guess = Nothing
           /\ \E q \in Requests :
                 /\ Post(q) /\ Formed(q) /\ q.form = "guess" /\ q.item \in items
                 /\ guess' = [asked |-> items, left |-> items \ {q.item}, guessed |-> {}, failed |-> {}, told |-> FALSE]
<1>1. PICK i \in items :
          /\ guess' = [asked |-> items, left |-> items \ {i}, guessed |-> {}, failed |-> {}, told |-> FALSE]
          /\ Post([form |-> "guess", item |-> i, n |-> acts, text |-> NoText])
  BY DEF GuessMetadata
<1> DEFINE q == [form |-> "guess", item |-> i, n |-> acts, text |-> NoText]
<1>2. q \in Requests /\ Formed(q) BY DEF FormsTypeOK, Requests, Formed, NoText
<1>3. guess' \in Guesses BY <1>1 DEF Guesses
<1>4. Post(q) /\ q.item = i BY <1>1
<1>5. FormsTypeOK' BY <1>2, <1>3, <1>4, PostTyped DEF GuessMetadata, FormsTypeOK, Act
<1>6. marks' = marks /\ guess = Nothing BY DEF GuessMetadata
<1> QED BY <1>1, <1>2, <1>4, <1>5, <1>6

-----------------------------------------------------------------------------
(* Requests end.                                                                *)

\* What the end of request p, accepted when ok, does.
Ending(p, ok) ==
    /\ ok => p.text # "closing"
    /\ IF p.form = "guess" THEN GuessEnded(p, ok) ELSE posts' = posts \ {p} /\ guess' = guess
    /\ dialog' = IF p.form = "dialog" THEN IF ok THEN CloseDialog(p) ELSE DialogRefused(p) ELSE dialog
    /\ panel' = IF ok THEN PanelAccepted(p) ELSE PanelRefused(p)
    /\ drafts' = IF ok THEN DraftsAccepted(p) ELSE drafts
    /\ marks' = IF ok THEN MarksAccepted(p) ELSE MarksRefused(p)
    /\ last' = IF ok THEN p ELSE Nothing
    /\ UNCHANGED <<opened, reader, acts>>

LEMMA Endings ==
    ASSUME Accepted \/ Refused
    PROVE  \E p \in posts, ok \in BOOLEAN : Ending(p, ok)
<1>1. CASE Accepted
  <2>1. PICK p \in posts : Ending(p, TRUE) BY <1>1 DEF Accepted, Ending
  <2> QED BY <2>1
<1>2. CASE Refused
  <2>1. PICK p \in posts : Ending(p, FALSE) BY <1>2 DEF Refused, Ending
  <2> QED BY <2>1
<1> QED BY <1>1, <1>2

LEMMA EndingTyped ==
    ASSUME AccountInv, NEW p \in posts, NEW ok \in BOOLEAN, Ending(p, ok)
    PROVE  /\ FormsTypeOK' /\ \A q \in posts' : Formed(q)
           /\ \A q : q.form # "guess" => (q \in posts' <=> q \in posts /\ q # p)
<1>1. FormsTypeOK /\ Formed(p) /\ (p.form = "guess" => Asking(guess, p)) BY DEF AccountInv, GuessWell
<1>2. /\ dialog' \in Dialogs \cup {Nothing} /\ panel' \in Panels
      /\ drafts' \in [FormItems -> Texts \cup {NoText}]
  BY <1>1, EndsTyped DEF Ending, FormsTypeOK
<1>3. marks' \in [FormItems -> SUBSET Marks] BY <1>1, MarksTyped DEF Ending
<1>4. CASE p.form = "guess"
  <2>1. GuessEnded(p, ok) BY <1>4 DEF Ending
  <2>2. /\ guess' \in Guesses /\ posts' \in SUBSET Requests
        /\ \A q \in posts' : q \in posts \/ (q.form = "guess" /\ q.item \in FormItems /\ q.text = p.text)
        /\ \A q \in posts : q.form # "guess" => q \in posts'
    BY <1>1, <1>4, <2>1, GuessTyped
  <2>3. FormsTypeOK' BY <1>1, <1>2, <1>3, <2>2 DEF Ending, FormsTypeOK
  <2>4. \A q \in posts' : Formed(q) BY <1>1, <1>4, <2>2 DEF AccountInv, Formed
  <2> QED BY <1>4, <2>2, <2>3, <2>4
<1>5. CASE p.form # "guess"
  <2>1. posts' = posts \ {p} /\ guess' = guess BY <1>5 DEF Ending
  <2>2. FormsTypeOK' BY <1>1, <1>2, <1>3, <2>1 DEF Ending, FormsTypeOK
  <2> QED BY <2>1, <2>2 DEF AccountInv
<1> QED BY <1>4, <1>5

\* A request that goes out is still the request of its item, once its reader is closed.
LEMMA CloseTyped ==
    ASSUME AccountInv, Close
    PROVE  /\ FormsTypeOK' /\ marks' = marks /\ guess' = guess
           /\ \E p \in posts, q \in Requests :
                 /\ p.text = "closing" /\ p.form \in {"send", "delete"} /\ Formed(q)
                 /\ q.form = p.form /\ q.item = p.item /\ posts' = (posts \ {p}) \cup {q}
<1>1. PICK p \in {x \in posts : x.text = "closing"} :
          /\ ClosedReader(p) /\ posts' = (posts \ {p}) \cup {[p EXCEPT !.text = "sent"]}
          /\ UNCHANGED <<dialog, opened, panel, drafts, marks, guess, acts>>
  BY DEF Close
<1> DEFINE q == [p EXCEPT !.text = "sent"]
<1>2. FormsTypeOK /\ p \in Requests /\ Formed(p) BY DEF AccountInv, FormsTypeOK
<1>3. p.form \in {"send", "delete"} /\ p.item \in FormItems BY <1>2 DEF Formed
<1>4. q \in Requests /\ q.form = p.form /\ q.item = p.item /\ q.text = "sent" BY <1>2 DEF Requests
<1>5. Formed(q) BY <1>2, <1>3, <1>4 DEF Formed
<1>6. reader' \in [FormItems -> [open : BOOLEAN, edited : BOOLEAN]] BY <1>1, <1>2, <1>3 DEF ClosedReader, FormsTypeOK
<1>7. posts' \in SUBSET Requests BY <1>1, <1>2, <1>4 DEF FormsTypeOK
<1>8. FormsTypeOK' BY <1>1, <1>2, <1>6, <1>7 DEF FormsTypeOK
<1> QED BY <1>1, <1>3, <1>4, <1>5, <1>8

-----------------------------------------------------------------------------
(* The marks.                                                                   *)

\* A request that is posted keeps what marks stand for, as do marks that stay.
LEMMA MarkedPosting ==
    ASSUME NEW q, Post(q), NEW i \in FormItems, MarkedWell(i), marks'[i] = marks[i],
           q.form # "extract" \/ q.item # i
    PROVE  MarkedWell(i)'
BY DEF MarkedWell, Posted, Post

\* A request that ends with its marks does too, however marks it does not stand for change.
LEMMA MarkedEnding ==
    ASSUME AccountInv, NEW p \in posts, NEW ok \in BOOLEAN, Ending(p, ok), NEW i \in FormItems
    PROVE  MarkedWell(i)'
<1>1. FormsTypeOK /\ Formed(p) /\ MarkedWell(i) BY DEF AccountInv
<1>2. \A q : q.form # "guess" => (q \in posts' <=> q \in posts /\ q # p) BY EndingTyped
<1>3. \A form \in {"send", "verify", "rebuild", "extract"} : \A j :
          (Posted(form, j)' => Posted(form, j)) /\ (p.form # form \/ p.item # j => (Posted(form, j)' <=> Posted(form, j)))
  BY <1>2 DEF Posted
<1>4. \A q, r \in posts' : q.form = "extract" /\ r.form = "extract" /\ q.item = i /\ r.item = i => q = r
  BY <1>1, <1>2 DEF MarkedWell
<1>5. marks \in [FormItems -> SUBSET Marks] /\ marks' = (IF ok THEN MarksAccepted(p) ELSE MarksRefused(p))
  BY <1>1 DEF FormsTypeOK, Ending
<1> USE DEF MarkedWell
<1>6. CASE p.form = "send"
  <2>1. p.item \in FormItems BY <1>1, <1>6 DEF Formed
  <2>2. CASE p.item = i
    <3>1. marks'[i] = (marks[i] \ {"sending", "failed"}) \/ marks'[i] = (marks[i] \ {"sending"}) \cup {"failed"}
      BY <1>5, <1>6, <2>1, <2>2 DEF MarksAccepted, MarksRefused, Unmark
    <3>2. "sending" \notin marks'[i] /\ \A m \in {"verifying", "rebuilding", "extracting"} \cup Attempts : m \in marks'[i] <=> m \in marks[i]
      BY <3>1 DEF Attempts
    <3> QED BY <1>1, <1>3, <1>4, <1>6, <3>2
  <2>3. CASE p.item # i
    <3>1. marks'[i] = marks[i] BY <1>5, <1>6, <2>1, <2>3 DEF MarksAccepted, MarksRefused, Unmark
    <3> QED BY <1>1, <1>3, <1>4, <1>6, <2>3, <3>1
  <2> QED BY <2>2, <2>3
<1>7. CASE p.form = "verify"
  <2>1. marks' = Unmark({p.item}, {"verifying"}) BY <1>5, <1>7 DEF MarksAccepted, MarksRefused, MarksEnded
  <2>2. CASE p.item = i
    <3>1. marks'[i] = marks[i] \ {"verifying"} BY <2>1, <2>2 DEF Unmark
    <3> QED BY <1>1, <1>3, <1>4, <1>7, <3>1 DEF Attempts
  <2>3. CASE p.item # i
    <3>1. marks'[i] = marks[i] BY <2>1, <2>3 DEF Unmark
    <3> QED BY <1>1, <1>3, <1>4, <1>7, <2>3, <3>1
  <2> QED BY <2>2, <2>3
<1>8. CASE p.form = "rebuild"
  <2>1. marks' = Unmark(IF p.item = Nothing THEN FormItems ELSE {p.item}, {"rebuilding"})
    BY <1>5, <1>8 DEF MarksAccepted, MarksRefused, MarksEnded
  <2>2. CASE p.item = Nothing \/ p.item = i
    <3>1. marks'[i] = marks[i] \ {"rebuilding"} BY <2>1, <2>2 DEF Unmark
    <3> QED BY <1>1, <1>3, <1>4, <1>8, <3>1 DEF Attempts
  <2>3. CASE p.item # Nothing /\ p.item # i
    <3>1. marks'[i] = marks[i] BY <2>1, <2>3 DEF Unmark
    <3> QED BY <1>1, <1>3, <1>4, <1>8, <2>3, <3>1
  <2> QED BY <2>2, <2>3
<1>9. CASE p.form = "extract"
  <2>1. p.item \in FormItems BY <1>1, <1>9 DEF Formed
  <2>2. PICK m \in {"extracted", "extractionFailed"} : marks' = Attempt(p.item, m)
    BY <1>5, <1>9 DEF MarksAccepted, MarksRefused, ExtractionEnded
  <2>3. CASE p.item = i
    <3>1. marks'[i] = (marks[i] \ Attempts) \cup {m} BY <1>5, <2>2, <2>3 DEF Attempt
    <3>2. ~Posted("extract", i)'
      <4>1. \A q \in posts : q.form = "extract" /\ q.item = i => q = p BY <1>1, <1>9, <2>3
      <4> QED BY <1>2, <4>1 DEF Posted
    <3>3. "extracting" \notin marks'[i] /\ \A k \in marks'[i] \cap Attempts : k = m BY <3>1 DEF Attempts
    <3>4. \A k \in {"sending", "verifying", "rebuilding"} : k \in marks'[i] => k \in marks[i] BY <3>1 DEF Attempts
    <3> QED BY <1>1, <1>3, <1>4, <1>9, <3>2, <3>3, <3>4
  <2>4. CASE p.item # i
    <3>1. marks'[i] = marks[i] BY <1>5, <2>1, <2>2, <2>4 DEF Attempt
    <3> QED BY <1>1, <1>3, <1>4, <1>9, <2>4, <3>1
  <2> QED BY <2>3, <2>4
<1>10. CASE p.form \notin {"send", "verify", "rebuild", "extract"}
  <2>1. marks' = marks BY <1>5, <1>10 DEF MarksAccepted, MarksRefused, MarksEnded
  <2> QED BY <1>1, <1>3, <1>4, <1>10, <2>1
<1> QED BY <1>6, <1>7, <1>8, <1>9, <1>10

\* Every item stays marked for what is done to it, whatever is begun or ends.
LEMMA MarkedStep ==
    ASSUME AccountInv, [FormsNext]_formsVars, NEW i \in FormItems
    PROVE  MarkedWell(i)'
<1>1. FormsTypeOK /\ MarkedWell(i) /\ marks \in [FormItems -> SUBSET Marks] BY DEF AccountInv, FormsTypeOK
<1>2. CASE UNCHANGED formsVars BY <1>1, <1>2 DEF formsVars, MarkedWell, Posted
<1>3. CASE Typing BY <1>1, <1>3, TypingQuiet DEF MarkedWell, Posted
<1>4. CASE Storing
  <2>1. PICK q \in Requests : Post(q) /\ q.form \in {"dialog", "note", "mirror", "editor", "delete"} /\ marks' = marks
    BY <1>1, <1>4, StoringTyped
  <2>2. q.form # "extract" /\ marks'[i] = marks[i] BY <2>1
  <2> QED BY <1>1, <2>1, <2>2, MarkedPosting
<1>5. CASE RebuildAll
  <2>1. PICK q \in Requests : Post(q) /\ q.form = "rebuild" /\ q.item = Nothing BY <1>1, <1>5, RebuildAllTyped
  <2>2. marks'[i] = marks[i] \cup {"rebuilding"} BY <1>1, <1>5, RebuildAllTyped
  <2> QED BY <1>1, <2>1, <2>2 DEF MarkedWell, Posted, Post, Attempts
<1>6. CASE Close
  <2>1. PICK p \in posts, q \in Requests :
           /\ marks' = marks /\ p.form \in {"send", "delete"} /\ q.form = p.form /\ q.item = p.item
           /\ posts' = (posts \ {p}) \cup {q}
    BY <1>6, CloseTyped
  <2>2. \A form, j : Posted(form, j)' <=> Posted(form, j) BY <2>1 DEF Posted
  <2>3. \A r \in posts' : r.form = "extract" => r \in posts BY <2>1
  <2> QED BY <1>1, <2>1, <2>2, <2>3 DEF MarkedWell
<1>7. CASE Accepted \/ Refused BY <1>7, Endings, MarkedEnding
<1>8. ASSUME NEW j \in FormItems, Marking(j) PROVE MarkedWell(i)'
  <2>1. PICK q \in Requests :
           /\ Post(q) /\ q.item = j
           /\ \/ q.form = "send" /\ marks' = [marks EXCEPT ![j] = (@ \ {"failed"}) \cup {"sending"}]
              \/ q.form = "verify" /\ marks' = Mark(j, "verifying")
              \/ q.form = "rebuild" /\ marks' = Mark(j, "rebuilding")
              \/ q.form = "extract" /\ marks' = Attempt(j, "extracting") /\ "extracting" \notin marks[j]
    BY <1>1, <1>8, MarkingTyped
  <2>2. CASE j # i
    <3>1. marks'[i] = marks[i] BY <1>1, <2>1, <2>2 DEF Mark, Attempt
    <3> QED BY <1>1, <2>1, <2>2, <3>1, MarkedPosting
  <2>3. CASE j = i /\ q.form = "send"
    <3>1. marks'[i] = (marks[i] \ {"failed"}) \cup {"sending"} BY <1>1, <2>1, <2>3
    <3> QED BY <1>1, <2>1, <2>3, <3>1 DEF MarkedWell, Posted, Post, Attempts
  <2>4. CASE j = i /\ q.form = "verify"
    <3>1. marks'[i] = marks[i] \cup {"verifying"} BY <1>1, <2>1, <2>4 DEF Mark
    <3> QED BY <1>1, <2>1, <2>4, <3>1 DEF MarkedWell, Posted, Post, Attempts
  <2>5. CASE j = i /\ q.form = "rebuild"
    <3>1. marks'[i] = marks[i] \cup {"rebuilding"} BY <1>1, <2>1, <2>5 DEF Mark
    <3> QED BY <1>1, <2>1, <2>5, <3>1 DEF MarkedWell, Posted, Post, Attempts
  <2>6. CASE j = i /\ q.form = "extract"
    <3>1. marks'[i] = (marks[i] \ Attempts) \cup {"extracting"} /\ ~Posted("extract", i)
      BY <1>1, <2>1, <2>6 DEF Attempt, MarkedWell
    <3> QED BY <1>1, <2>1, <2>6, <3>1 DEF MarkedWell, Posted, Post, Attempts
  <2> QED BY <2>1, <2>2, <2>3, <2>4, <2>5, <2>6
<1>9. ASSUME NEW items \in SUBSET FormItems, GuessMetadata(items) PROVE MarkedWell(i)'
  <2>1. PICK q \in Requests : Post(q) /\ q.form = "guess" BY <1>1, <1>9, GuessTypedFirst
  <2>2. q.form # "extract" /\ marks'[i] = marks[i] BY <1>1, <1>9, <2>1, GuessTypedFirst
  <2> QED BY <1>1, <2>1, <2>2, MarkedPosting
<1> QED BY <1>2, <1>3, <1>4, <1>5, <1>6, <1>7, <1>8, <1>9, StepKinds

-----------------------------------------------------------------------------
(* The guesses.                                                                 *)

\* A request of another kind leaves the run of guesses what it is.
LEMMA GuessApart ==
    ASSUME GuessWell, guess' = guess, \A q \in posts' : q.form = "guess" => q \in posts
    PROVE  GuessWell'
BY DEF GuessWell, Asking

\* A guess that ends, and the next one.
LEMMA GuessEnding ==
    ASSUME FormsTypeOK, GuessWell, NEW p \in posts, Formed(p), p.form = "guess", NEW ok \in BOOLEAN, GuessEnded(p, ok)
    PROVE  GuessWell'
<1> DEFINE g == GuessNext(guess, ok, p.item)
<1>1. guess \in Guesses /\ Asking(guess, p) BY DEF FormsTypeOK, GuessWell, Asking
<1>2. \A q \in posts : q.form = "guess" => q = p BY DEF GuessWell
<1>3. guess.left \cap (guess.guessed \cup guess.failed) = {} /\ guess.guessed \cap guess.failed = {}
  BY <1>1 DEF GuessWell, Asking
<1>4. /\ g.left = guess.left /\ g.asked = guess.asked /\ g.told = guess.told
      /\ \/ g.guessed = guess.guessed \cup {p.item} /\ g.failed = guess.failed
         \/ g.guessed = guess.guessed /\ g.failed = guess.failed \cup {p.item}
      /\ g = [asked |-> g.asked, left |-> g.left, guessed |-> g.guessed, failed |-> g.failed, told |-> g.told]
  <2>1. CASE ok = TRUE BY <1>1, <2>1 DEF GuessNext, Guesses
  <2>2. CASE ok = FALSE BY <1>1, <2>2 DEF GuessNext, Guesses
  <2> QED BY <2>1, <2>2
<1>5. /\ g.left \cap (g.guessed \cup g.failed) = {} /\ g.guessed \cap g.failed = {} /\ ~g.told
      /\ g.asked = g.left \cup g.guessed \cup g.failed
  BY <1>1, <1>3, <1>4 DEF Asking
<1>6. CASE g.left = {}
  <2>1. guess' = [g EXCEPT !.told = TRUE] /\ posts' = posts \ {p} BY <1>6 DEF GuessEnded
  <2> HIDE DEF g
  <2>2. /\ guess'.left = {} /\ guess'.guessed = g.guessed /\ guess'.failed = g.failed /\ guess'.asked = g.asked
    BY <1>4, <1>6, <2>1
  <2>3. \A q \in posts' : q.form # "guess" BY <1>2, <2>1
  <2> QED BY <1>5, <1>6, <2>2, <2>3 DEF GuessWell
<1>7. CASE g.left # {}
  <2>1. PICK i \in g.left : guess' = [g EXCEPT !.left = @ \ {i}] /\ posts' = (posts \ {p}) \cup {[p EXCEPT !.item = i]}
    BY <1>7 DEF GuessEnded
  <2>2. p \in Requests BY DEF FormsTypeOK
  <2> DEFINE r == [p EXCEPT !.item = i]
  <2>3. r.item = i /\ r.form = "guess" BY <2>2 DEF Requests
  <2> HIDE DEF g, r
  <2>4. /\ guess'.left = g.left \ {i} /\ guess'.guessed = g.guessed /\ guess'.failed = g.failed
        /\ guess'.asked = g.asked /\ guess'.told = g.told
    BY <1>4, <2>1
  <2>5. guess' \in Guesses BY <1>1, GuessTyped
  <2>6. guess' # Nothing BY <2>5, FormsAssumption
  <2>7. Asking(guess', r) BY <1>5, <2>1, <2>3, <2>4, <2>6 DEF Asking
  <2>8. \A q \in posts' : q.form = "guess" => q = r BY <1>2, <2>1 DEF r
  <2> QED BY <1>5, <2>4, <2>7, <2>8 DEF GuessWell
<1> QED BY <1>6, <1>7

LEMMA GuessStep == ASSUME AccountInv, [FormsNext]_formsVars PROVE GuessWell'
<1>1. FormsTypeOK /\ GuessWell BY DEF AccountInv
<1>2. CASE UNCHANGED formsVars BY <1>1, <1>2 DEF formsVars, GuessWell, Asking
<1>3. CASE Typing BY <1>1, <1>3, TypingQuiet, GuessApart
<1>4. CASE Storing BY <1>1, <1>4, StoringTyped, GuessApart DEF Post
<1>5. CASE RebuildAll BY <1>1, <1>5, RebuildAllTyped, GuessApart DEF Post
<1>6. CASE Close BY <1>1, <1>6, CloseTyped, GuessApart
<1>7. CASE Accepted \/ Refused
  <2>1. PICK p \in posts, ok \in BOOLEAN : Ending(p, ok) BY <1>7, Endings
  <2>2. CASE p.form = "guess"
    <3>1. GuessEnded(p, ok) /\ Formed(p) BY <2>1, <2>2 DEF Ending, AccountInv
    <3> QED BY <1>1, <2>2, <3>1, GuessEnding
  <2>3. CASE p.form # "guess" BY <1>1, <2>1, <2>3, GuessApart DEF Ending
  <2> QED BY <2>2, <2>3
<1>8. ASSUME NEW i \in FormItems, Marking(i) PROVE GuessWell'
  BY <1>1, <1>8, MarkingTyped, GuessApart DEF Post
<1>9. ASSUME NEW items \in SUBSET FormItems, GuessMetadata(items) PROVE GuessWell'
  <2>1. PICK q \in Requests :
           /\ Post(q) /\ q.form = "guess" /\ q.item \in items
           /\ guess' = [asked |-> items, left |-> items \ {q.item}, guessed |-> {}, failed |-> {}, told |-> FALSE]
    BY <1>1, <1>9, GuessTypedFirst
  <2>2. \A p \in posts : p.form # "guess" BY <1>1, <1>9, GuessTypedFirst DEF GuessWell, Asking
  <2>3. guess' # Nothing
    <3>1. guess' \in Guesses BY <2>1 DEF Guesses
    <3> QED BY <3>1, FormsAssumption
  <2>4. Asking(guess', q) BY <2>1, <2>3 DEF Asking
  <2> QED BY <2>1, <2>2, <2>4 DEF GuessWell, Post
<1> QED BY <1>2, <1>3, <1>4, <1>5, <1>6, <1>7, <1>8, <1>9, StepKinds

-----------------------------------------------------------------------------
(* Every request is accounted for.                                              *)

LEMMA AccountStart == ASSUME FormsInit PROVE AccountInv
<1> USE DEF FormsInit
<1>1. FormsTypeOK
  <2>1. PICK i \in FormItems : panel = NewPanel(i, 0) OBVIOUS
  <2>2. panel \in Panels BY <2>1 DEF NewPanel, Panels, NoText
  <2> QED BY <2>2 DEF FormsTypeOK
<1>2. \A i \in FormItems : MarkedWell(i) BY DEF MarkedWell, Posted
<1>3. GuessWell BY DEF GuessWell
<1> QED BY <1>1, <1>2, <1>3 DEF AccountInv

LEMMA AccountStep == ASSUME AccountInv, [FormsNext]_formsVars PROVE AccountInv'
<1>1. FormsTypeOK /\ \A p \in posts : Formed(p) BY DEF AccountInv
<1>2. FormsTypeOK' /\ \A p \in posts' : Formed(p)
  <2>1. CASE UNCHANGED formsVars BY <1>1, <2>1 DEF formsVars, FormsTypeOK
  <2>2. CASE Typing BY <1>1, <2>2, TypingTyped, TypingQuiet
  <2>3. CASE Storing BY <1>1, <2>3, StoringTyped DEF Post
  <2>4. CASE RebuildAll BY <1>1, <2>4, RebuildAllTyped DEF Post
  <2>5. CASE Close BY <1>1, <2>5, CloseTyped
  <2>6. CASE Accepted \/ Refused BY <2>6, Endings, EndingTyped
  <2>7. ASSUME NEW i \in FormItems, Marking(i) PROVE FormsTypeOK' /\ \A p \in posts' : Formed(p)
    BY <1>1, <2>7, MarkingTyped DEF Post
  <2>8. ASSUME NEW items \in SUBSET FormItems, GuessMetadata(items) PROVE FormsTypeOK' /\ \A p \in posts' : Formed(p)
    BY <1>1, <2>8, GuessTypedFirst DEF Post
  <2> QED BY <2>1, <2>2, <2>3, <2>4, <2>5, <2>6, <2>7, <2>8, StepKinds
<1> QED BY <1>2, MarkedStep, GuessStep DEF AccountInv

\* A set whose elements are all one has one element at most.
LEMMA AtMostOne ==
    ASSUME NEW S, \A x, y \in S : x = y
    PROVE  Cardinality(S) <= 1
<1>1. CASE S = {} BY <1>1, FS_EmptySet
<1>2. CASE S # {}
  <2>1. PICK x : S = {x} BY <1>2
  <2> QED BY <2>1, FS_Singleton
<1> QED BY <1>1, <1>2

LEMMA AccountMeans == ASSUME AccountInv PROVE RequestsAccount
<1>1. ASSUME NEW i \in FormItems
      PROVE  /\ Cardinality(marks[i] \cap Attempts) <= 1
             /\ Cardinality({p \in posts : p.form = "extract" /\ p.item = i}) <= 1
  <2>1. MarkedWell(i) BY DEF AccountInv
  <2>2. \A m, k \in marks[i] \cap Attempts : m = k BY <2>1 DEF MarkedWell
  <2>3. \A p, q \in {r \in posts : r.form = "extract" /\ r.item = i} : p = q BY <2>1 DEF MarkedWell
  <2> QED BY <2>2, <2>3, AtMostOne
<1>2. MarksEnd BY <1>1 DEF MarksEnd, AccountInv, MarkedWell
<1>3. GuessAccounts BY DEF AccountInv, GuessWell, GuessAccounts
<1> QED BY <1>2, <1>3 DEF RequestsAccount

\* Every request of a window ends for its user (libraryActions.ts): an item is marked as being
\* sent, verified, rebuilt or extracted only while it is, at most one extraction of it runs, and a
\* run of guesses that is over has named every item it was asked for as guessed or as failed; for
\* any items, and requests that end in any order, accepted or refused.
THEOREM RequestsAccountHolds == FormsSpec => []RequestsAccount
<1>1. FormsInit => AccountInv BY AccountStart
<1>2. AccountInv /\ [FormsNext]_formsVars => AccountInv' BY AccountStep
<1>3. AccountInv => RequestsAccount BY AccountMeans
<1> QED BY <1>1, <1>2, <1>3, PTL DEF FormsSpec

-----------------------------------------------------------------------------
(* What is typed.                                                               *)

\* A window's forms and their requests stay as they are while a step leaves both alone.
LEMMA KeptApart ==
    ASSUME KeptInv, UNCHANGED <<dialog, opened, panel, drafts>>,
           \A p \in posts' : p.form \in {"dialog", "note", "mirror", "editor"} => p \in posts
    PROVE  KeptInv'
<1>1. DialogHeld' BY DEF KeptInv, DialogHeld
<1>2. NotesHeld' BY DEF KeptInv, NotesHeld
<1>3. MirrorHeld' BY DEF KeptInv, MirrorHeld
<1>4. EditorHeld' BY DEF KeptInv, EditorHeld
<1> QED BY <1>1, <1>2, <1>3, <1>4 DEF KeptInv

\* What is done to items is none of its forms.
LEMMA KeptItems ==
    ASSUME FormsTypeOK, KeptInv,
           \/ RebuildAll \/ \E i \in FormItems : DeleteItem(i) \/ Marking(i) \/ OpenReader(i)
           \/ PluginsRead \/ \E items \in SUBSET FormItems : GuessMetadata(items)
    PROVE  KeptInv'
<1>1. CASE RebuildAll BY <1>1, KeptApart DEF RebuildAll, Post
<1>2. ASSUME NEW i \in FormItems, DeleteItem(i) PROVE KeptInv' BY <1>2, KeptApart DEF DeleteItem, Post
<1>3. ASSUME NEW i \in FormItems, Marking(i) PROVE KeptInv'
  BY <1>3, KeptApart DEF Marking, SendToZotero, Verify, Rebuild, ExtractWith, Post
<1>4. ASSUME NEW i \in FormItems, OpenReader(i) PROVE KeptInv' BY <1>4, KeptApart DEF OpenReader
<1>5. CASE PluginsRead BY <1>5, KeptApart DEF PluginsRead
<1>6. ASSUME NEW items \in SUBSET FormItems, GuessMetadata(items) PROVE KeptInv'
  BY <1>6, KeptApart DEF GuessMetadata, Post
<1> QED BY <1>1, <1>2, <1>3, <1>4, <1>5, <1>6

\* A request that goes out is none of theirs either.
LEMMA KeptClose == ASSUME AccountInv, KeptInv, Close PROVE KeptInv'
<1>1. PICK p \in posts, q \in Requests :
          p.form \in {"send", "delete"} /\ q.form = p.form /\ posts' = (posts \ {p}) \cup {q}
  BY CloseTyped
<1> QED BY <1>1, KeptApart DEF Close

\* Dialogs: opened, typed in, cancelled, stored.
LEMMA DialogTyping ==
    ASSUME FormsTypeOK, KeptInv, TypesWhileSaving = FALSE,
           \/ \E kind \in {"name", "rules"} : OpenDialog(kind)
           \/ \E t \in Texts : TypeName(t)
           \/ CancelName \/ SubmitName
    PROVE  KeptInv'
<1> USE DEF FormsTypeOK
<1>1. DialogHeld BY DEF KeptInv
<1>2. ASSUME NEW kind \in {"name", "rules"}, OpenDialog(kind) PROVE KeptInv'
  <2>1. opened' = opened + 1 /\ dialog'.n = opened + 1 /\ posts' = posts BY <1>2 DEF OpenDialog
  <2>2. \A p \in posts : p.form = "dialog" => p.n <= opened /\ p.n \in Nat BY <1>1 DEF DialogHeld, Requests
  <2>3. DialogHeld' BY <1>1, <2>1, <2>2 DEF DialogHeld
  <2>4. UNCHANGED <<panel, drafts, posts>> BY <1>2 DEF OpenDialog
  <2> QED BY <2>3, <2>4 DEF KeptInv, NotesHeld, MirrorHeld, EditorHeld
<1>3. ASSUME NEW t \in Texts, TypeName(t) PROVE KeptInv'
  <2>1. dialog \in Dialogs /\ ~dialog.saving BY <1>3 DEF TypeName, Dialogs
  <2>2. dialog' = [dialog EXCEPT !.text = t] /\ UNCHANGED <<opened, panel, drafts, posts>> BY <1>3 DEF TypeName
  <2>3. dialog'.n = dialog.n BY <2>1, <2>2 DEF Dialogs
  <2>4. dialog # Nothing BY <1>3 DEF TypeName
  <2>5. DialogHeld' BY <1>1, <2>1, <2>2, <2>3, <2>4 DEF DialogHeld
  <2> QED BY <2>2, <2>5 DEF KeptInv, NotesHeld, MirrorHeld, EditorHeld
<1>4. CASE CancelName
  <2>1. dialog' = Nothing /\ UNCHANGED <<opened, panel, drafts, posts>> BY <1>4 DEF CancelName
  <2>2. DialogHeld' BY <1>1, <2>1 DEF DialogHeld
  <2> QED BY <2>1, <2>2 DEF KeptInv, NotesHeld, MirrorHeld, EditorHeld
<1>5. CASE SubmitName
  <2> DEFINE q == [form |-> "dialog", item |-> Nothing, n |-> dialog.n, text |-> dialog.text]
  <2>1. /\ dialog' = [dialog EXCEPT !.saving = TRUE, !.refused = FALSE] /\ posts' = posts \cup {q}
        /\ UNCHANGED <<opened, panel, drafts>> /\ dialog # Nothing /\ ~dialog.saving
    BY <1>5 DEF SubmitName, Post
  <2>2. dialog \in Dialogs BY <2>1
  <2>3. dialog'.n = dialog.n /\ dialog'.saving /\ dialog'.text = dialog.text BY <2>1, <2>2 DEF Dialogs
  <2>4. q.form = "dialog" /\ q.n = dialog.n /\ q.text = dialog.text OBVIOUS
  <2>5. \A p \in posts : p.form = "dialog" => p.n # dialog.n BY <1>1, <2>1 DEF DialogHeld
  <2> HIDE DEF q
  <2>6. DialogHeld' BY <1>1, <2>1, <2>3, <2>4, <2>5 DEF DialogHeld
  <2>7. \A p \in posts' : p.form # "dialog" => p \in posts BY <2>1, <2>4
  <2>8. NotesHeld' BY <2>1, <2>7 DEF KeptInv, NotesHeld
  <2>9. MirrorHeld' BY <2>1, <2>7 DEF KeptInv, MirrorHeld
  <2>10. EditorHeld' BY <2>1, <2>7 DEF KeptInv, EditorHeld
  <2> QED BY <2>6, <2>8, <2>9, <2>10 DEF KeptInv
<1> QED BY <1>2, <1>3, <1>4, <1>5

\* A panel that is shown anew, or another one, has no request under way of its forms.
LEMMA PanelAnew ==
    ASSUME FormsTypeOK, KeptInv, panel' \in Panels, panel'.forms = panel.forms + 1,
           \/ panel'.panel = panel.forms + 1
           \/ panel'.panel = panel.panel /\ panel'.item = panel.item /\ panel'.editor = Nothing
           \/ panel'.panel = panel.panel /\ panel'.item = panel.item /\ ~Posted("editor", panel.item),
           UNCHANGED <<dialog, opened, drafts, posts>>
    PROVE  KeptInv'
<1>1. panel.forms \in Nat /\ panel.panel \in Nat BY DEF FormsTypeOK, Panels
<1>2. \A p \in posts : p.n \in Nat BY DEF FormsTypeOK, Requests
<1>3. MirrorHeld' BY <1>1, <1>2 DEF KeptInv, MirrorHeld
<1>4. EditorHeld'
  <2>1. EditorHeld BY DEF KeptInv
  <2>2. CASE panel'.panel = panel.forms + 1 BY <1>1, <1>2, <2>1, <2>2 DEF EditorHeld
  <2>3. CASE panel'.panel = panel.panel /\ panel'.item = panel.item /\ panel'.editor = Nothing
    BY <1>1, <1>2, <2>1, <2>3 DEF EditorHeld
  <2>4. CASE panel'.panel = panel.panel /\ panel'.item = panel.item /\ ~Posted("editor", panel.item)
    <3>1. \A p \in posts : p.form = "editor" => p.n # panel.panel BY <2>1, <2>4 DEF EditorHeld, Posted
    <3> QED BY <1>1, <1>2, <2>1, <2>4, <3>1 DEF EditorHeld
  <2> QED BY <2>2, <2>3, <2>4
<1>5. DialogHeld' /\ NotesHeld' BY DEF KeptInv, DialogHeld, NotesHeld
<1> QED BY <1>3, <1>4, <1>5 DEF KeptInv

\* Another item, another tab; and the metadata editor, opened, typed in, stored and left.
LEMMA PanelTyping ==
    ASSUME FormsTypeOK, FormsTypeOK', KeptInv, TypesWhileSaving = FALSE,
           \/ \E i \in FormItems : Select(i)
           \/ Leave \/ (\E t \in Texts : EditMetadata(t)) \/ SaveMetadata \/ CancelMetadata
    PROVE  KeptInv'
<1>1. panel \in Panels /\ panel' \in Panels BY DEF FormsTypeOK
<1>2. ASSUME NEW i \in FormItems, Select(i) PROVE KeptInv'
  <2>1. panel' = NewPanel(i, panel.forms + 1) /\ UNCHANGED <<dialog, opened, drafts, posts>> BY <1>2 DEF Select
  <2> QED BY <1>1, <2>1, PanelAnew DEF NewPanel
<1>3. CASE Leave
  <2>1. panel' = ShownAnew /\ UNCHANGED <<dialog, opened, drafts, posts>> BY <1>3 DEF Leave
  <2>2. panel'.forms = panel.forms + 1 /\ panel'.panel = panel.panel /\ panel'.item = panel.item /\ panel'.editor = Nothing
    BY <1>1, <2>1 DEF ShownAnew, Panels
  <2> QED BY <1>1, <2>1, <2>2, PanelAnew
<1>4. ASSUME NEW t \in Texts, EditMetadata(t) PROVE KeptInv'
  <2>1. UNCHANGED <<dialog, opened, drafts, posts>> /\ ~Posted("editor", panel.item) BY <1>4 DEF EditMetadata
  <2>2. CASE panel.editor = Nothing
    <3>1. panel' = [ShownAnew EXCEPT !.editor = [text |-> t, saving |-> FALSE]] BY <1>4, <2>2 DEF EditMetadata
    <3>2. panel'.forms = panel.forms + 1 /\ panel'.panel = panel.panel /\ panel'.item = panel.item
      BY <1>1, <3>1 DEF ShownAnew, Panels
    <3> QED BY <1>1, <2>1, <3>2, PanelAnew
  <2>3. CASE panel.editor # Nothing
    <3>1. panel' = [panel EXCEPT !.editor.text = t] BY <1>4, <2>3 DEF EditMetadata
    <3>2. /\ panel'.forms = panel.forms /\ panel'.panel = panel.panel /\ panel'.item = panel.item
          /\ panel'.mirror = panel.mirror
      BY <1>1, <3>1 DEF Panels
    <3>3. \A p \in posts : p.form = "editor" => p.n # panel.panel BY <2>1 DEF KeptInv, EditorHeld, Posted
    <3>4. EditorHeld' BY <2>1, <3>2, <3>3 DEF KeptInv, EditorHeld
    <3> QED BY <2>1, <3>2, <3>4 DEF KeptInv, DialogHeld, NotesHeld, MirrorHeld
  <2> QED BY <2>2, <2>3
<1>5. CASE SaveMetadata
  <2> DEFINE q == [form |-> "editor", item |-> panel.item, n |-> panel.panel, text |-> panel.editor.text]
  <2>1. /\ panel.editor # Nothing /\ ~panel.editor.saving /\ panel' = [panel EXCEPT !.editor.saving = TRUE]
        /\ posts' = posts \cup {q} /\ UNCHANGED <<dialog, opened, drafts>>
    BY <1>5 DEF SaveMetadata, Post
  <2>2. panel.editor \in Editors BY <1>1, <2>1 DEF Panels
  <2>3. /\ panel'.forms = panel.forms /\ panel'.panel = panel.panel /\ panel'.item = panel.item
        /\ panel'.mirror = panel.mirror /\ panel'.editor.saving /\ panel'.editor.text = panel.editor.text
    BY <1>1, <2>1, <2>2 DEF Panels, Editors
  <2>4. \A p \in posts : p.form = "editor" => p.n # panel.panel BY <2>1 DEF KeptInv, EditorHeld
  <2>5. q.form = "editor" /\ q.n = panel.panel /\ q.item = panel.item /\ q.text = panel.editor.text OBVIOUS
  <2> HIDE DEF q
  <2>6. EditorHeld' BY <2>1, <2>3, <2>4, <2>5 DEF KeptInv, EditorHeld
  <2>7. \A p \in posts' : p.form # "editor" => p \in posts BY <2>1, <2>5
  <2>8. DialogHeld' /\ NotesHeld' BY <2>1, <2>7 DEF KeptInv, DialogHeld, NotesHeld
  <2>9. MirrorHeld' BY <2>3, <2>7 DEF KeptInv, MirrorHeld
  <2> QED BY <2>6, <2>8, <2>9 DEF KeptInv
<1>6. CASE CancelMetadata
  <2>1. panel' = [panel EXCEPT !.editor = Nothing] /\ UNCHANGED <<dialog, opened, drafts, posts>>
    BY <1>6 DEF CancelMetadata
  <2>2. /\ panel'.forms = panel.forms /\ panel'.panel = panel.panel /\ panel'.item = panel.item
        /\ panel'.mirror = panel.mirror /\ panel'.editor = Nothing
    BY <1>1, <2>1 DEF Panels
  <2>3. EditorHeld' BY <2>1, <2>2 DEF KeptInv, EditorHeld
  <2> QED BY <2>1, <2>2, <2>3 DEF KeptInv, DialogHeld, NotesHeld, MirrorHeld
<1> QED BY <1>2, <1>3, <1>4, <1>5, <1>6

\* The note and the new mirror, typed and stored.
LEMMA NotesTyping ==
    ASSUME FormsTypeOK, KeptInv, TypesWhileSaving = FALSE,
           (\E t \in Texts : TypeNote(t) \/ TypeMirror(t)) \/ AddNote \/ AddMirror
    PROVE  KeptInv'
<1>1. panel \in Panels /\ drafts \in [FormItems -> Texts \cup {NoText}] BY DEF FormsTypeOK
<1>2. ASSUME NEW t \in Texts, TypeNote(t) PROVE KeptInv'
  <2>1. /\ drafts' = [drafts EXCEPT ![panel.item] = t] /\ UNCHANGED <<dialog, opened, panel, posts>>
        /\ \A p \in posts : p.form = "note" => p.item # panel.item
    BY <1>2 DEF TypeNote, Posted
  <2>2. NotesHeld' BY <1>1, <2>1 DEF KeptInv, NotesHeld
  <2> QED BY <2>1, <2>2 DEF KeptInv, DialogHeld, MirrorHeld, EditorHeld
<1>3. ASSUME NEW t \in Texts, TypeMirror(t) PROVE KeptInv'
  <2>1. /\ panel' = [panel EXCEPT !.mirror = t] /\ UNCHANGED <<dialog, opened, drafts, posts>>
        /\ \A p \in posts : p.form = "mirror" => p.item # panel.item
    BY <1>3 DEF TypeMirror, Posted
  <2>2. /\ panel'.forms = panel.forms /\ panel'.panel = panel.panel /\ panel'.item = panel.item
        /\ panel'.editor = panel.editor
    BY <1>1, <2>1 DEF Panels
  <2>3. MirrorHeld' BY <2>1, <2>2 DEF KeptInv, MirrorHeld
  <2>4. EditorHeld' BY <2>1, <2>2 DEF KeptInv, EditorHeld
  <2> QED BY <2>1, <2>3, <2>4 DEF KeptInv, DialogHeld, NotesHeld
<1>4. CASE AddNote
  <2> DEFINE q == [form |-> "note", item |-> panel.item, n |-> panel.forms, text |-> drafts[panel.item]]
  <2>1. /\ panel' = [panel EXCEPT !.noting = TRUE] /\ posts' = posts \cup {q} /\ UNCHANGED <<dialog, opened, drafts>>
        /\ \A p \in posts : p.form = "note" => p.item # panel.item
    BY <1>4 DEF AddNote, Post, Posted
  <2>2. /\ panel'.forms = panel.forms /\ panel'.panel = panel.panel /\ panel'.item = panel.item
        /\ panel'.editor = panel.editor /\ panel'.mirror = panel.mirror
    BY <1>1, <2>1 DEF Panels
  <2>3. q.form = "note" /\ q.item = panel.item /\ q.text = drafts[panel.item] OBVIOUS
  <2> HIDE DEF q
  <2>4. NotesHeld' BY <2>1, <2>3 DEF KeptInv, NotesHeld
  <2>5. \A p \in posts' : p.form # "note" => p \in posts BY <2>1, <2>3
  <2>6. DialogHeld' BY <2>1, <2>5 DEF KeptInv, DialogHeld
  <2>7. MirrorHeld' BY <2>2, <2>5 DEF KeptInv, MirrorHeld
  <2>8. EditorHeld' BY <2>2, <2>5 DEF KeptInv, EditorHeld
  <2> QED BY <2>4, <2>6, <2>7, <2>8 DEF KeptInv
<1>5. CASE AddMirror
  <2> DEFINE q == [form |-> "mirror", item |-> panel.item, n |-> panel.forms, text |-> panel.mirror]
  <2>1. posts' = posts \cup {q} /\ UNCHANGED <<dialog, opened, panel, drafts>> BY <1>5 DEF AddMirror, Post
  <2>2. q.form = "mirror" /\ q.item = panel.item /\ q.n = panel.forms /\ q.text = panel.mirror OBVIOUS
  <2> HIDE DEF q
  <2>3. panel.forms \in Nat BY <1>1 DEF Panels
  <2>4. MirrorHeld' BY <2>1, <2>2, <2>3 DEF KeptInv, MirrorHeld
  <2>5. \A p \in posts' : p.form # "mirror" => p \in posts BY <2>1, <2>2
  <2>6. DialogHeld' /\ NotesHeld' BY <2>1, <2>5 DEF KeptInv, DialogHeld, NotesHeld
  <2>7. EditorHeld' BY <2>1, <2>5 DEF KeptInv, EditorHeld
  <2> QED BY <2>4, <2>6, <2>7 DEF KeptInv
<1> QED BY <1>2, <1>3, <1>4, <1>5

-----------------------------------------------------------------------------
(* What the end of a request takes.                                             *)

\* The panel an ended request leaves: the same one, its editor and its mirror but for what the
\* request stored.
LEMMA PanelEnded ==
    ASSUME FormsTypeOK, NEW p \in posts, NEW ok \in BOOLEAN, Ending(p, ok)
    PROVE  /\ panel'.item = panel.item /\ panel'.panel = panel.panel /\ panel'.forms = panel.forms
           /\ panel'.mirror = IF ok /\ p.form = "mirror" /\ p.n = panel.forms THEN NoText ELSE panel.mirror
           /\ ~(p.form = "editor" /\ p.n = panel.panel) => panel'.editor = panel.editor
           /\ p.form = "editor" /\ p.n = panel.panel /\ ok => panel'.editor = Nothing
           /\ p.form = "editor" /\ p.n = panel.panel /\ ~ok =>
                 IF panel.editor = Nothing THEN panel'.editor = Nothing
                 ELSE panel'.editor # Nothing /\ panel'.editor.text = panel.editor.text
<1>1. panel \in Panels BY DEF FormsTypeOK
<1>2. CASE ok
  <2>1. panel' = PanelAccepted(p) BY <1>2 DEF Ending
  <2> QED BY <1>1, <1>2, <2>1 DEF PanelAccepted, Panels
<1>3. CASE ~ok
  <2>1. panel' = PanelRefused(p) BY <1>3 DEF Ending
  <2>2. panel.editor # Nothing => panel.editor \in Editors /\ [panel.editor EXCEPT !.saving = FALSE] \in Editors
    BY <1>1 DEF Panels, Editors
  <2>3. CASE p.form = "editor" /\ p.n = panel.panel /\ panel.editor # Nothing
    <3>1. panel' = [panel EXCEPT !.editor.saving = FALSE] BY <2>1, <2>3 DEF PanelRefused
    <3>2. panel'.editor = [panel.editor EXCEPT !.saving = FALSE] BY <1>1, <3>1 DEF Panels
    <3>3. panel'.editor # Nothing /\ panel'.editor.text = panel.editor.text
      BY <2>2, <2>3, <3>2, FormsAssumption DEF Editors
    <3> QED BY <1>1, <1>3, <2>3, <3>1, <3>3 DEF Panels
  <2>4. CASE ~(p.form = "editor" /\ p.n = panel.panel /\ panel.editor # Nothing)
    <3>1. panel' = panel \/ panel' = [panel EXCEPT !.noting = FALSE] BY <2>1, <2>4 DEF PanelRefused
    <3> QED BY <1>1, <1>3, <2>4, <3>1 DEF Panels
  <2> QED BY <2>3, <2>4
<1> QED BY <1>2, <1>3

\* The dialog an ended request leaves.
LEMMA DialogEnded ==
    ASSUME FormsTypeOK, NEW p \in posts, NEW ok \in BOOLEAN, Ending(p, ok)
    PROVE  /\ ~(p.form = "dialog" /\ dialog # Nothing /\ dialog.n = p.n) => dialog' = dialog
           /\ p.form = "dialog" /\ dialog # Nothing /\ dialog.n = p.n =>
                 IF ok THEN dialog' = Nothing ELSE dialog' # Nothing /\ dialog'.n = dialog.n
<1>1. CASE p.form = "dialog" /\ dialog # Nothing /\ dialog.n = p.n /\ ~ok
  <2>1. dialog' = [dialog EXCEPT !.saving = FALSE, !.refused = TRUE] BY <1>1 DEF Ending, DialogRefused
  <2>2. dialog \in Dialogs BY <1>1 DEF FormsTypeOK
  <2>3. dialog' \in Dialogs /\ dialog'.n = dialog.n BY <2>1, <2>2 DEF Dialogs
  <2> QED BY <1>1, <2>3, FormsAssumption
<1>2. CASE ~(p.form = "dialog" /\ dialog # Nothing /\ dialog.n = p.n /\ ~ok)
  BY <1>2 DEF Ending, DialogRefused, CloseDialog
<1> QED BY <1>1, <1>2

LEMMA KeptEnding ==
    ASSUME AccountInv, KeptInv, NEW p \in posts, NEW ok \in BOOLEAN, Ending(p, ok)
    PROVE  KeptInv'
<1>1. FormsTypeOK BY DEF AccountInv
<1>2. \A q \in posts' : q.form # "guess" => q \in posts /\ q # p BY EndingTyped
<1>3. DialogHeld'
  <2>1. CASE p.form = "dialog" /\ dialog # Nothing /\ dialog.n = p.n
    <3>1. \A q \in posts' : q.form = "dialog" => q.n # dialog.n BY <1>2, <2>1 DEF KeptInv, DialogHeld
    <3>2. (dialog' = Nothing \/ dialog'.n = dialog.n) /\ opened' = opened BY <1>1, <2>1, DialogEnded DEF Ending
    <3> QED BY <1>2, <2>1, <3>1, <3>2 DEF KeptInv, DialogHeld
  <2>2. CASE ~(p.form = "dialog" /\ dialog # Nothing /\ dialog.n = p.n)
    <3>1. dialog' = dialog /\ opened' = opened BY <1>1, <2>2, DialogEnded DEF Ending
    <3> QED BY <1>2, <3>1 DEF KeptInv, DialogHeld
  <2> QED BY <2>1, <2>2
<1>4. NotesHeld'
  <2>1. CASE ok /\ p.form = "note"
    <3>1. drafts' = [drafts EXCEPT ![p.item] = NoText] BY <2>1 DEF Ending, DraftsAccepted
    <3>2. \A q \in posts' : q.form = "note" => q.item # p.item BY <1>2, <2>1 DEF KeptInv, NotesHeld
    <3>3. \A q \in posts' : q.form = "note" => drafts'[q.item] = drafts[q.item]
      <4>1. \A q \in posts' : q.form = "note" => q.item \in FormItems BY <1>2 DEF AccountInv, Formed
      <4> QED BY <1>1, <3>1, <3>2, <4>1 DEF FormsTypeOK
    <3> QED BY <1>2, <3>3 DEF KeptInv, NotesHeld
  <2>2. CASE ~(ok /\ p.form = "note")
    <3>1. drafts' = drafts BY <2>2 DEF Ending, DraftsAccepted
    <3> QED BY <1>2, <3>1 DEF KeptInv, NotesHeld
  <2> QED BY <2>1, <2>2
<1>5. MirrorHeld'
  <2>1. panel'.item = panel.item /\ panel'.forms = panel.forms BY <1>1, PanelEnded
  <2>2. CASE ok /\ p.form = "mirror" /\ p.n = panel.forms
    <3>1. \A q \in posts' : q.form = "mirror" => q.n # panel.forms
      <4>1. SUFFICES ASSUME NEW q \in posts', q.form = "mirror", q.n = panel.forms PROVE FALSE OBVIOUS
      <4>2. q \in posts /\ q # p BY <1>2, <4>1
      <4>3. q.item = p.item /\ q.text = p.text BY <2>2, <4>1, <4>2 DEF KeptInv, MirrorHeld
      <4>4. p \in Requests /\ q \in Requests BY <1>1, <4>2 DEF FormsTypeOK
      <4>5. /\ p = [form |-> p.form, item |-> p.item, n |-> p.n, text |-> p.text]
            /\ q = [form |-> q.form, item |-> q.item, n |-> q.n, text |-> q.text]
        BY <4>4 DEF Requests
      <4>6. p.form = q.form /\ p.n = q.n BY <2>2, <4>1
      <4> QED BY <4>2, <4>3, <4>5, <4>6
    <3> QED BY <1>2, <2>1, <3>1 DEF KeptInv, MirrorHeld
  <2>3. CASE ~(ok /\ p.form = "mirror" /\ p.n = panel.forms)
    <3>1. panel'.mirror = panel.mirror BY <1>1, <2>3, PanelEnded
    <3> QED BY <1>2, <2>1, <3>1 DEF KeptInv, MirrorHeld
  <2> QED BY <2>2, <2>3
<1>6. EditorHeld'
  <2>1. panel'.item = panel.item /\ panel'.forms = panel.forms /\ panel'.panel = panel.panel BY <1>1, PanelEnded
  <2>2. CASE p.form = "editor" /\ p.n = panel.panel
    <3>1. \A q \in posts' : q.form = "editor" => q.n # panel.panel BY <1>2, <2>2 DEF KeptInv, EditorHeld
    <3> QED BY <1>2, <2>1, <3>1 DEF KeptInv, EditorHeld
  <2>3. CASE ~(p.form = "editor" /\ p.n = panel.panel)
    <3>1. panel'.editor = panel.editor BY <1>1, <2>3, PanelEnded
    <3> QED BY <1>2, <2>1, <3>1 DEF KeptInv, EditorHeld
  <2> QED BY <2>2, <2>3
<1> QED BY <1>3, <1>4, <1>5, <1>6 DEF KeptInv

LEMMA KeptStart == ASSUME FormsInit PROVE KeptInv
<1> USE DEF FormsInit
<1>1. PICK i \in FormItems : panel = NewPanel(i, 0) OBVIOUS
<1>2. panel.panel <= panel.forms BY <1>1 DEF NewPanel
<1> QED BY <1>2 DEF KeptInv, DialogHeld, NotesHeld, MirrorHeld, EditorHeld

LEMMA KeptStep ==
    ASSUME AccountInv, AccountInv', KeptInv, TypesWhileSaving = FALSE, [FormsNext]_formsVars
    PROVE  KeptInv'
<1>1. FormsTypeOK /\ FormsTypeOK' BY DEF AccountInv
<1>2. CASE UNCHANGED formsVars BY <1>2, KeptApart DEF formsVars
<1>3. CASE Typing BY <1>1, <1>3, DialogTyping, PanelTyping, NotesTyping, KeptItems DEF Typing
<1>4. CASE Storing BY <1>1, <1>4, DialogTyping, PanelTyping, NotesTyping, KeptItems DEF Storing
<1>5. CASE RebuildAll BY <1>1, <1>5, KeptItems
<1>6. CASE Close BY <1>6, KeptClose
<1>7. CASE Accepted \/ Refused BY <1>7, Endings, KeptEnding
<1>8. ASSUME NEW i \in FormItems, Marking(i) PROVE KeptInv' BY <1>1, <1>8, KeptItems
<1>9. ASSUME NEW items \in SUBSET FormItems, GuessMetadata(items) PROVE KeptInv' BY <1>1, <1>9, KeptItems
<1> QED BY <1>2, <1>3, <1>4, <1>5, <1>6, <1>7, <1>8, <1>9, StepKinds

\* An answer takes from a form only the text it stored.
LEMMA EndingKeeps ==
    ASSUME AccountInv, KeptInv, NEW p \in posts, NEW ok \in BOOLEAN, Ending(p, ok)
    PROVE  TypedStays
<1>1. FormsTypeOK /\ Formed(p) /\ p \in Requests BY DEF AccountInv, FormsTypeOK
<1>2. p # Nothing BY <1>1, FormsAssumption
<1>3. ok => last' = p BY DEF Ending
<1>4. dialog # Nothing /\ dialog.text # NoText /\ dialog' = Nothing =>
          last' # Nothing /\ last'.form = "dialog" /\ last'.item = Nothing /\ last'.text = dialog.text /\ last'.n = dialog.n
  <2>1. SUFFICES ASSUME dialog # Nothing, dialog' = Nothing
                 PROVE  ok /\ p.form = "dialog" /\ p.item = Nothing /\ p.text = dialog.text /\ p.n = dialog.n
    BY <1>2, <1>3
  <2>2. ok /\ p.form = "dialog" /\ dialog.n = p.n BY <1>1, <2>1, DialogEnded
  <2> QED BY <1>1, <2>1, <2>2 DEF KeptInv, DialogHeld, Formed
<1>5. ASSUME NEW i \in FormItems, drafts[i] # NoText, drafts'[i] # drafts[i]
      PROVE  last' # Nothing /\ last'.form = "note" /\ last'.item = i /\ last'.text = drafts[i]
  <2>1. ok /\ p.form = "note" /\ drafts' = [drafts EXCEPT ![p.item] = NoText] BY <1>5 DEF Ending, DraftsAccepted
  <2>2. p.item = i BY <1>1, <1>5, <2>1 DEF FormsTypeOK
  <2> QED BY <1>2, <1>3, <2>1, <2>2 DEF KeptInv, NotesHeld
<1>6. panel.mirror # NoText /\ panel'.mirror # panel.mirror =>
          last' # Nothing /\ last'.form = "mirror" /\ last'.item = panel.item /\ last'.text = panel.mirror
  <2>1. SUFFICES ASSUME panel'.mirror # panel.mirror
                 PROVE  ok /\ p.form = "mirror" /\ p.item = panel.item /\ p.text = panel.mirror
    BY <1>2, <1>3
  <2>2. ok /\ p.form = "mirror" /\ p.n = panel.forms BY <1>1, <2>1, PanelEnded
  <2> QED BY <2>2 DEF KeptInv, MirrorHeld
<1>7. panel.editor # Nothing /\ panel'.editor = Nothing =>
          last' # Nothing /\ last'.form = "editor" /\ last'.item = panel.item /\ last'.text = panel.editor.text
  <2>1. SUFFICES ASSUME panel.editor # Nothing, panel'.editor = Nothing
                 PROVE  ok /\ p.form = "editor" /\ p.item = panel.item /\ p.text = panel.editor.text
    BY <1>2, <1>3
  <2>2. p.form = "editor" /\ p.n = panel.panel /\ ok BY <1>1, <2>1, PanelEnded
  <2> QED BY <2>1, <2>2 DEF KeptInv, EditorHeld
<1> QED BY <1>4, <1>5, <1>6, <1>7 DEF TypedStays

\* What the user does counts as an act.
LEMMA UserActs ==
    ASSUME FormsTypeOK, [FormsNext]_formsVars, acts' = acts
    PROVE  UNCHANGED formsVars \/ PluginsRead \/ Close \/ Accepted \/ Refused
<1>1. acts + 1 # acts BY DEF FormsTypeOK
<1>2. ~Act BY <1>1 DEF Act
<1>3. Typing => PluginsRead
  BY <1>2 DEF Typing, OpenDialog, TypeName, TypeNote, TypeMirror, EditMetadata, CancelName, Leave, CancelMetadata,
              Select, OpenReader
<1>4. ~Storing BY <1>2 DEF Storing, SubmitName, AddNote, AddMirror, SaveMetadata, DeleteItem
<1>5. ~RebuildAll BY <1>2 DEF RebuildAll
<1>6. \A i \in FormItems : ~Marking(i) BY <1>2 DEF Marking, SendToZotero, Verify, Rebuild, ExtractWith
<1>7. \A items \in SUBSET FormItems : ~GuessMetadata(items) BY <1>2 DEF GuessMetadata
<1> QED BY <1>3, <1>4, <1>5, <1>6, <1>7, StepKinds

LEMMA StepKeeps ==
    ASSUME AccountInv, KeptInv, [FormsNext]_formsVars, acts' = acts
    PROVE  TypedStays
<1>1. FormsTypeOK BY DEF AccountInv
<1>2. CASE UNCHANGED <<dialog, panel, drafts>>
  BY <1>2 DEF TypedStays
<1>3. CASE UNCHANGED formsVars \/ PluginsRead \/ Close BY <1>2, <1>3 DEF formsVars, PluginsRead, Close
<1>4. CASE Accepted \/ Refused BY <1>4, Endings, EndingKeeps
<1> QED BY <1>1, <1>3, <1>4, UserActs

\* A send or a deletion goes out by Close alone, which closes its reader first.
LEMMA StepSettles ==
    ASSUME AccountInv, [FormsNext]_formsVars
    PROVE  SettledFirst
<1>1. FormsTypeOK BY DEF AccountInv
<1>2. SUFFICES ASSUME NEW q \in posts' \ posts, q.form \in {"send", "delete"}, q.text = "sent"
               PROVE  ~reader'[q.item].edited
  BY DEF SettledFirst
<1>3. CASE Close
  <2>1. PICK p \in posts : posts' = (posts \ {p}) \cup {[p EXCEPT !.text = "sent"]} /\ p.text = "closing" /\ ClosedReader(p)
    BY <1>3 DEF Close
  <2>2. p \in Requests /\ Formed(p) BY <1>1 DEF AccountInv, FormsTypeOK
  <2>3. q.item = p.item /\ p.item \in FormItems BY <1>2, <2>1, <2>2 DEF Requests, Formed
  <2>4. reader'[p.item] = [open |-> FALSE, edited |-> FALSE] BY <1>1, <2>1, <2>3 DEF ClosedReader, FormsTypeOK
  <2> QED BY <2>3, <2>4
<1>4. CASE UNCHANGED formsVars BY <1>2, <1>4 DEF formsVars
<1>5. CASE Typing BY <1>2, <1>5, TypingQuiet
<1>6. CASE RebuildAll BY <1>1, <1>2, <1>6, RebuildAllTyped DEF Post
<1>7. CASE Accepted \/ Refused
  <2>1. \A r : r.form # "guess" => (r \in posts' => r \in posts) BY <1>7, Endings, EndingTyped
  <2> QED BY <1>2, <2>1
<1>8. CASE Storing
  <2>1. SubmitName \/ AddNote \/ AddMirror \/ SaveMetadata => q.form \notin {"send", "delete"}
    BY <1>2 DEF SubmitName, AddNote, AddMirror, SaveMetadata, Post
  <2>2. \A i \in FormItems : DeleteItem(i) => q.text = "closing" BY <1>2 DEF DeleteItem, Post
  <2> QED BY <1>2, <1>8, <2>1, <2>2 DEF Storing
<1>9. ASSUME NEW i \in FormItems, Marking(i) PROVE FALSE
  BY <1>2, <1>9 DEF Marking, SendToZotero, Verify, Rebuild, ExtractWith, Post
<1>10. ASSUME NEW items \in SUBSET FormItems, GuessMetadata(items) PROVE FALSE
  BY <1>1, <1>2, <1>10, GuessTypedFirst DEF Post
<1> QED BY <1>3, <1>4, <1>5, <1>6, <1>7, <1>8, <1>9, <1>10, StepKinds

\* No answer takes from a window what its user typed and nothing has stored (NameDialog.tsx,
\* InspectorPanel.tsx), and no send or deletion goes out over unsaved annotations
\* (libraryActions.ts): for users who let a text be stored before they go on with it, any items
\* and dialogs, and answers that come in any order, to forms closed, reopened or moved since.
THEOREM UnsavedKeptHolds == ASSUME TypesWhileSaving = FALSE PROVE FormsSpec => UnsavedKept
<1> DEFINE Inv == AccountInv /\ KeptInv
<1>1. FormsInit => Inv BY AccountStart, KeptStart
<1>2. Inv /\ [FormsNext]_formsVars => Inv' BY AccountStep, KeptStep
<1>3. Inv /\ [FormsNext]_formsVars => [acts' = acts => TypedStays]_formsVars BY StepKeeps
<1>4. Inv /\ [FormsNext]_formsVars => [SettledFirst]_formsVars BY StepSettles
<1> HIDE DEF Inv
<1>5. FormsSpec => TypedKept BY <1>1, <1>2, <1>3, PTL DEF FormsSpec, TypedKept
<1>6. FormsSpec => GoesOutSettled BY <1>1, <1>2, <1>4, PTL DEF FormsSpec, GoesOutSettled
<1> QED BY <1>5, <1>6 DEF UnsavedKept

-----------------------------------------------------------------------------
(* Finite sets, gone through one member after another.                           *)

\* What is shown for 0 and for each next number is so for all of 0..N.
LEMMA Upwards ==
    ASSUME NEW N \in Nat, NEW T, 0 \in T, \A n \in 1..N : n - 1 \in T => n \in T
    PROVE  \A n \in 0..N : n \in T
<1> DEFINE R == {ss \in Nat \X Nat : ss[1] < ss[2]}
           Missing == (0..N) \ T
<1>1. SUFFICES ASSUME Missing # {} PROVE FALSE OBVIOUS
<1>2. IsWellFoundedOn(R, Nat) BY NatLessThanWellFounded DEF OpToRel
<1>3. Missing \subseteq Nat OBVIOUS
<1>4. PICK n \in Missing : \A m \in Missing : <<m, n>> \notin R
  <2> HIDE DEF R, Missing
  <2> QED BY <1>1, <1>2, <1>3, WFMin
<1>5. n \in 1..N /\ n - 1 \in 0..N /\ <<n - 1, n>> \in R BY <1>4
<1> QED BY <1>4, <1>5

LEMMA Sizes ==
    ASSUME NEW S, IsFiniteSet(S)
    PROVE  /\ Cardinality(S) \in Nat
           /\ \A T \in SUBSET S : /\ IsFiniteSet(T) /\ Cardinality(T) \in 0..Cardinality(S)
                                  /\ T = {} <=> Cardinality(T) = 0
                                  /\ \A x \in T : Cardinality(T \ {x}) = Cardinality(T) - 1
<1>1. ASSUME NEW T \in SUBSET S
      PROVE  /\ IsFiniteSet(T) /\ Cardinality(T) \in 0..Cardinality(S)
             /\ T = {} <=> Cardinality(T) = 0
             /\ \A x \in T : Cardinality(T \ {x}) = Cardinality(T) - 1
  <2>1. IsFiniteSet(T) /\ Cardinality(T) <= Cardinality(S) BY FS_Subset
  <2>2. Cardinality(T) \in Nat /\ Cardinality(S) \in Nat BY <2>1, FS_CardinalityType
  <2>3. T = {} <=> Cardinality(T) = 0 BY <2>1, FS_EmptySet
  <2>4. \A x \in T : Cardinality(T \ {x}) = Cardinality(T) - 1 BY <2>1, FS_RemoveElement
  <2> QED BY <2>1, <2>2, <2>3, <2>4
<1> QED BY <1>1, FS_CardinalityType

\* What is so of a set when it is so of what each member leaves is so of every subset.
LEMMA Shrinking ==
    ASSUME NEW S, IsFiniteSet(S), NEW W, \A T \in SUBSET S : (\A x \in T : T \ {x} \in W) => T \in W
    PROVE  \A T \in SUBSET S : T \in W
<1> DEFINE N == Cardinality(S)
           B == {n \in 0..N : \A T \in SUBSET S : Cardinality(T) = n => T \in W}
<1>1. /\ N \in Nat
      /\ \A T \in SUBSET S : Cardinality(T) \in 0..N /\ (T = {} <=> Cardinality(T) = 0)
      /\ \A T \in SUBSET S : \A x \in T : Cardinality(T \ {x}) = Cardinality(T) - 1
  BY Sizes
<1> HIDE DEF N
<1>2. 0 \in B
  <2>1. {} \in W OBVIOUS
  <2> QED BY <1>1, <2>1
<1>3. ASSUME NEW n \in 1..N, n - 1 \in B PROVE n \in B
  <2> SUFFICES ASSUME NEW T \in SUBSET S, Cardinality(T) = n PROVE T \in W BY <1>1
  <2>1. \A x \in T : T \ {x} \in SUBSET S /\ Cardinality(T \ {x}) = n - 1 BY <1>1
  <2>2. \A x \in T : T \ {x} \in W BY <1>3, <2>1
  <2> QED BY <2>2
<1> HIDE DEF B
<1>4. \A n \in 0..N : n \in B BY <1>1, <1>2, <1>3, Upwards
<1> SUFFICES ASSUME NEW T \in SUBSET S PROVE T \in W OBVIOUS
<1>5. Cardinality(T) \in B BY <1>1, <1>4
<1> QED BY <1>5 DEF B

\* P picks a member of each set, G makes a value of D of one, f is defined from what a set is
\* without the member picked.
Picks(P, S) == \A T \in SUBSET S : T # {} => P[T] \in T
Makes(G, S, D) == \A T \in SUBSET S : \A r \in D : G[T][r] \in D
Peels(f, S, base, P, G) == f[{}] = base /\ \A T \in SUBSET S : T # {} => f[T] = G[T][f[T \ {P[T]}]]

\* A function defined so exists.
LEMMA Peeling ==
    ASSUME NEW S, IsFiniteSet(S), NEW D, NEW base \in D, NEW P, Picks(P, S), NEW G, Makes(G, S, D)
    PROVE  \E f \in [SUBSET S -> D] : Peels(f, S, base, P, G)
<1> DEFINE N == Cardinality(S)
           Upto(n) == {T \in SUBSET S : Cardinality(T) <= n}
           Is(f, n) == /\ f \in [Upto(n) -> D] /\ f[{}] = base
                       /\ \A T \in Upto(n) : T # {} => f[T] = G[T][f[T \ {P[T]}]]
           B == {n \in 0..N : \E f : Is(f, n)}
<1>1. /\ N \in Nat
      /\ \A T \in SUBSET S : Cardinality(T) \in 0..N /\ (T = {} <=> Cardinality(T) = 0)
      /\ \A T \in SUBSET S : \A x \in T : Cardinality(T \ {x}) = Cardinality(T) - 1
  BY Sizes
<1> HIDE DEF N
<1>2. 0 \in B
  <2> DEFINE f == [T \in Upto(0) |-> base]
  <2>1. {} \in Upto(0) /\ \A T \in Upto(0) : T = {} BY <1>1
  <2>2. f \in [Upto(0) -> D] /\ f[{}] = base BY <2>1
  <2> HIDE DEF f
  <2>3. Is(f, 0) BY <2>1, <2>2
  <2> HIDE DEF Is
  <2> QED BY <1>1, <2>3
<1>3. ASSUME NEW n \in 1..N, n - 1 \in B PROVE n \in B
  <2>1. PICK f : Is(f, n - 1) BY <1>3
  <2> DEFINE g == [T \in Upto(n) |-> IF Cardinality(T) = n THEN G[T][f[T \ {P[T]}]] ELSE f[T]]
  <2>2. \A T \in Upto(n) : T # {} => T \ {P[T]} \in Upto(n - 1) BY <1>1 DEF Picks
  <2>3. \A T \in Upto(n) : Cardinality(T) # n => T \in Upto(n - 1) BY <1>1
  <2>4. \A T \in Upto(n) : Cardinality(T) = n => T # {} BY <1>1
  <2>5. \A T \in Upto(n - 1) : T \in Upto(n) /\ Cardinality(T) # n BY <1>1
  <2>6. g \in [Upto(n) -> D]
    <3> SUFFICES ASSUME NEW T \in Upto(n) PROVE g[T] \in D OBVIOUS
    <3>1. CASE Cardinality(T) = n
      <4>1. f[T \ {P[T]}] \in D BY <2>1, <2>2, <2>4, <3>1
      <4> QED BY <3>1, <4>1 DEF Makes
    <3>2. CASE Cardinality(T) # n BY <2>1, <2>3, <3>2
    <3> QED BY <3>1, <3>2
  <2>7. \A T \in Upto(n - 1) : g[T] = f[T] BY <2>5
  <2>8. \A T \in Upto(n) : Cardinality(T) = n => g[T] = G[T][f[T \ {P[T]}]] OBVIOUS
  <2> HIDE DEF g
  <2>9. {} \in Upto(n - 1) BY <1>1
  <2>10. g[{}] = base BY <2>1, <2>7, <2>9
  <2>11. ASSUME NEW T \in Upto(n), T # {} PROVE g[T] = G[T][g[T \ {P[T]}]]
    <3>1. g[T \ {P[T]}] = f[T \ {P[T]}] BY <2>2, <2>7, <2>11
    <3>2. CASE Cardinality(T) = n BY <2>8, <3>1, <3>2
    <3>3. CASE Cardinality(T) # n
      <4>1. T \in Upto(n - 1) /\ g[T] = f[T] BY <2>3, <2>7, <3>3
      <4> QED BY <2>1, <2>11, <3>1, <4>1
    <3> QED BY <3>2, <3>3
  <2>12. Is(g, n) BY <2>6, <2>10, <2>11
  <2> HIDE DEF Is
  <2> QED BY <1>1, <2>12
<1> HIDE DEF B
<1>4. N \in B BY <1>1, <1>2, <1>3, Upwards
<1>5. PICK f : Is(f, N) BY <1>4 DEF B
<1>6. Upto(N) = SUBSET S BY <1>1
<1> QED BY <1>5, <1>6 DEF Peels

\* One of the members is highest.
LEMMA Highest ==
    ASSUME NEW S, IsFiniteSet(S), NEW at, \A s \in S : at[s] \in Nat
    PROVE  \A T \in SUBSET S : T # {} => \E m \in T : \A t \in T : at[m] >= at[t]
<1> DEFINE W == {T \in SUBSET S : T # {} => \E m \in T : \A t \in T : at[m] >= at[t]}
<1>1. ASSUME NEW T \in SUBSET S, \A x \in T : T \ {x} \in W PROVE T \in W
  <2>1. SUFFICES ASSUME T # {} PROVE \E m \in T : \A t \in T : at[m] >= at[t] OBVIOUS
  <2>2. PICK x \in T : TRUE BY <2>1
  <2>3. CASE T \ {x} = {} BY <2>2, <2>3
  <2>4. CASE T \ {x} # {}
    <3>1. PICK m \in T \ {x} : \A t \in T \ {x} : at[m] >= at[t] BY <1>1, <2>2, <2>4
    <3>2. CASE at[m] >= at[x] BY <3>1, <3>2
    <3>3. CASE ~(at[m] >= at[x])
      <4>1. \A t \in T : at[x] >= at[t] BY <3>1, <3>3
      <4> QED BY <4>1
    <3> QED BY <3>2, <3>3
  <2> QED BY <2>3, <2>4
<1> HIDE DEF W
<1>2. \A T \in SUBSET S : T \in W BY <1>1, Shrinking
<1> QED BY <1>2 DEF W

-----------------------------------------------------------------------------
(* The Timeline.                                                                 *)

\* What the reader stores: no session was last seen before it was opened.
Readable(S) ==
    /\ IsFiniteSet(S)
    /\ \A s \in S : /\ s.opened \in Nat /\ s.seen \in Nat /\ s.opened <= s.seen /\ s.seconds \in Nat
                    /\ IsFiniteSet(s.pages) /\ s.pages \subseteq Nat

LEMMA SecondsAreNat == ASSUME NEW S, Readable(S) PROVE SecondsOf(S) \in Nat
<1> DEFINE One(T) == CHOOSE s \in T : TRUE
           P == [T \in SUBSET S |-> One(T)]
           G == [T \in SUBSET S |-> [r \in Nat |-> One(T).seconds + r]]
           Is(f) == f = [T \in SUBSET S |-> IF T = {} THEN 0
                            ELSE LET one == CHOOSE s \in T : TRUE IN one.seconds + f[T \ {one}]]
<1>1. \A T \in SUBSET S : T # {} => One(T) \in T OBVIOUS
<1>2. IsFiniteSet(S) /\ \A s \in S : s.seconds \in Nat BY DEF Readable
<1>3. \A T \in SUBSET S : P[T] = One(T) OBVIOUS
<1>4. \A T \in SUBSET S : T # {} => P[T] \in T BY <1>1, <1>3
<1> DEFINE H == [T \in SUBSET S |-> IF T = {} THEN [r \in Nat |-> 0] ELSE G[T]]
<1>5. \A T \in SUBSET S : \A r \in Nat : H[T][r] \in Nat
  <2> SUFFICES ASSUME NEW T \in SUBSET S, NEW r \in Nat PROVE H[T][r] \in Nat OBVIOUS
  <2>1. CASE T = {} BY <2>1
  <2>2. CASE T # {}
    <3>1. One(T).seconds \in Nat BY <1>1, <1>2, <2>2
    <3>2. H[T] = [q \in Nat |-> One(T).seconds + q] BY <2>2
    <3> HIDE DEF One
    <3> QED BY <3>1, <3>2
  <2> QED BY <2>1, <2>2
<1>6. \A T \in SUBSET S, r \in Nat : T # {} => H[T][r] = One(T).seconds + r OBVIOUS
<1> HIDE DEF P, G, H
<1>7. PICK g \in [SUBSET S -> Nat] :
         g[{}] = 0 /\ \A T \in SUBSET S : T # {} => g[T] = H[T][g[T \ {P[T]}]]
  <2> DEFINE D == Nat
             base == 0
  <2>1. base \in D /\ Makes(H, S, D) /\ Picks(P, S) BY <1>4, <1>5 DEF Makes, Picks
  <2> HIDE DEF D, base, One, Is
  <2>2. \E f \in [SUBSET S -> D] : Peels(f, S, base, P, H) BY <1>2, <2>1, Peeling
  <2> QED BY <2>2 DEF D, base, Peels
<1>8. \E f : Is(f)
  <2>1. \A T \in SUBSET S : g[T] = IF T = {} THEN 0 ELSE One(T).seconds + g[T \ {One(T)}]
    <3> TAKE T \in SUBSET S
    <3>1. CASE T = {} BY <1>7, <3>1
    <3>2. CASE T # {}
      <4>1. T \ {P[T]} \in SUBSET S OBVIOUS
      <4>2. g[T \ {P[T]}] \in Nat BY <1>7, <4>1
      <4>3. g[T] = One(T).seconds + g[T \ {P[T]}] BY <1>6, <1>7, <3>2, <4>2
      <4> QED BY <1>3, <3>2, <4>3
    <3> QED BY <3>1, <3>2
  <2>2. Is(g) BY <1>7, <2>1
  <2> QED BY <2>2
<1> DEFINE h == CHOOSE f : Is(f)
<1>9. Is(h) BY <1>8
<1>10. SecondsOf(S) = h[S] BY DEF SecondsOf
<1> HIDE DEF h
<1>11. \A T \in SUBSET S : h[T] = IF T = {} THEN 0 ELSE One(T).seconds + h[T \ {One(T)}] BY <1>9
<1> DEFINE W == {T \in SUBSET S : h[T] \in Nat}
<1>12. ASSUME NEW T \in SUBSET S, \A x \in T : T \ {x} \in W PROVE T \in W
  <2>1. CASE T = {} BY <1>11, <2>1
  <2>2. CASE T # {}
    <3>1. One(T) \in T /\ One(T).seconds \in Nat BY <1>1, <1>2, <2>2
    <3> HIDE DEF One
    <3>2. h[T \ {One(T)}] \in Nat BY <1>12, <3>1
    <3> QED BY <1>11, <2>2, <3>1, <3>2
  <2> QED BY <2>1, <2>2
<1> HIDE DEF W
<1>13. S \in W BY <1>2, <1>12, Shrinking
<1> QED BY <1>10, <1>13 DEF W

Entries(S) == [key : {s.key : s \in S}, opened : Nat, seen : Nat, of : SUBSET S]

\* The entries es with session l after them, which opens no earlier.
With(es, l) ==
    IF es # <<>> /\ Joins(es[Len(es)], l)
    THEN [es EXCEPT ![Len(es)] = Joined(@, l)] ELSE Append(es, EntryOf(l))

LEMMA WithTyped ==
    ASSUME NEW S, Readable(S), NEW es \in Seq(Entries(S)), NEW l \in S
    PROVE  With(es, l) \in Seq(Entries(S))
<1>1. l.opened \in Nat /\ l.seen \in Nat /\ l.key \in {s.key : s \in S} BY DEF Readable
<1>2. EntryOf(l) \in Entries(S) BY <1>1 DEF EntryOf, Entries
<1>3. \A e \in Entries(S) : Joined(e, l) \in Entries(S) BY <1>1 DEF Joined, Latest, Entries
<1> HIDE DEF Entries
<1>4. CASE es # <<>>
  <2>1. Len(es) \in 1..Len(es) BY <1>4, EmptySeq
  <2>2. es[Len(es)] \in Entries(S) BY <2>1, ElementOfSeq
  <2>3. DOMAIN es = 1..Len(es) BY LenProperties
  <2>4. [es EXCEPT ![Len(es)] = Joined(es[Len(es)], l)] \in Seq(Entries(S)) BY <1>3, <2>1, <2>2, ExceptSeq
  <2>5. Append(es, EntryOf(l)) \in Seq(Entries(S)) BY <1>2, AppendProperties
  <2> QED BY <2>4, <2>5 DEF With
<1>5. CASE es = <<>>
  <2>1. Append(es, EntryOf(l)) \in Seq(Entries(S)) BY <1>2, AppendProperties
  <2> QED BY <1>5, <2>1 DEF With
<1> QED BY <1>4, <1>5

\* KeyEntries goes through the sessions by opening, the last of them last.
LEMMA EntriesSteps ==
    ASSUME NEW S, Readable(S)
    PROVE  \E f \in [SUBSET S -> Seq(Entries(S))] :
              /\ f[{}] = <<>> /\ KeyEntries(S) = {f[S][n] : n \in DOMAIN f[S]}
              /\ \A T \in SUBSET S : T # {} =>
                    \E l \in T : (\A t \in T : l.opened >= t.opened) /\ f[T] = With(f[T \ {l}], l)
<1> DEFINE D == Seq(Entries(S))
           Last(T) == CHOOSE s \in T : \A t \in T : s.opened >= t.opened
           P == [T \in SUBSET S |-> Last(T)]
           H == [T \in SUBSET S |-> [r \in D |-> IF T = {} THEN <<>> ELSE With(r, P[T])]]
           Is(f) == f = [T \in SUBSET S |->
                            IF T = {} THEN <<>>
                            ELSE LET newest == CHOOSE s \in T : \A t \in T : s.opened >= t.opened
                                     es == f[T \ {newest}]
                                 IN IF es # <<>> /\ Joins(es[Len(es)], newest)
                                    THEN [es EXCEPT ![Len(es)] = Joined(@, newest)]
                                    ELSE Append(es, EntryOf(newest))]
<1>1. \A T \in SUBSET S : T # {} => Last(T) \in T /\ \A t \in T : Last(T).opened >= t.opened
  <2> DEFINE at == [s \in S |-> s.opened]
  <2>1. IsFiniteSet(S) /\ \A s \in S : at[s] \in Nat BY DEF Readable
  <2>2. \A s \in S : at[s] = s.opened OBVIOUS
  <2> HIDE DEF at
  <2>3. \A T \in SUBSET S : T # {} => \E m \in T : \A t \in T : at[m] >= at[t] BY <2>1, Highest
  <2> SUFFICES ASSUME NEW T \in SUBSET S, T # {}
               PROVE  Last(T) \in T /\ \A t \in T : Last(T).opened >= t.opened
    OBVIOUS
  <2>4. \E m \in T : \A t \in T : m.opened >= t.opened BY <2>2, <2>3
  <2> QED BY <2>4
<1>2. \A T \in SUBSET S : P[T] = Last(T) OBVIOUS
<1> HIDE DEF Last
<1>3. \A T \in SUBSET S : T # {} => P[T] \in T BY <1>1, <1>2
<1>4. <<>> \in D BY EmptySeq
<1>5. \A T \in SUBSET S : \A r \in D : T # {} => With(r, P[T]) \in D BY <1>3, WithTyped
<1> HIDE DEF P, D
<1>6. \A T \in SUBSET S : \A r \in D : H[T][r] \in D BY <1>4, <1>5
<1>7. \A T \in SUBSET S, r \in D : T # {} => H[T][r] = With(r, P[T]) OBVIOUS
<1> HIDE DEF H
<1>8. PICK g \in [SUBSET S -> D] :
         g[{}] = <<>> /\ \A T \in SUBSET S : T # {} => g[T] = H[T][g[T \ {P[T]}]]
  <2> DEFINE base == <<>>
  <2>1. base \in D /\ IsFiniteSet(S) /\ Makes(H, S, D) /\ Picks(P, S)
    BY <1>3, <1>4, <1>6 DEF Readable, Makes, Picks
  <2> HIDE DEF base, Is
  <2>2. \E f \in [SUBSET S -> D] : Peels(f, S, base, P, H) BY <2>1, Peeling
  <2> QED BY <2>2 DEF base, Peels
<1>9. \E f : Is(f)
  <2>1. \A T \in SUBSET S : g[T] = IF T = {} THEN <<>> ELSE With(g[T \ {Last(T)}], Last(T))
    <3> TAKE T \in SUBSET S
    <3>1. CASE T = {} BY <1>8, <3>1
    <3>2. CASE T # {}
      <4>1. T \ {P[T]} \in SUBSET S OBVIOUS
      <4>2. g[T \ {P[T]}] \in D BY <1>8, <4>1
      <4>3. g[T] = With(g[T \ {P[T]}], P[T]) BY <1>7, <1>8, <3>2, <4>2
      <4> QED BY <1>2, <3>2, <4>3
    <3> QED BY <3>1, <3>2
  <2>2. Is(g) BY <1>8, <2>1 DEF With, Last
  <2> QED BY <2>2
<1> DEFINE h == CHOOSE f : Is(f)
<1>10. Is(h) BY <1>9
<1>11. KeyEntries(S) = {h[S][n] : n \in DOMAIN h[S]} BY DEF KeyEntries
<1> HIDE DEF h
<1>12. \A T \in SUBSET S : h[T] = IF T = {} THEN <<>> ELSE With(h[T \ {Last(T)}], Last(T))
  BY <1>10 DEF With, Last
<1>13. DOMAIN h = SUBSET S /\ h = [T \in SUBSET S |-> h[T]] BY <1>10
<1> DEFINE W == {T \in SUBSET S : h[T] \in D}
<1>14. ASSUME NEW T \in SUBSET S, \A x \in T : T \ {x} \in W PROVE T \in W
  <2>1. CASE T = {} BY <1>4, <1>12, <2>1
  <2>2. CASE T # {}
    <3>1. P[T] \in T /\ P[T] = Last(T) BY <1>2, <1>3, <2>2
    <3>2. h[T \ {P[T]}] \in D BY <1>14, <3>1
    <3> QED BY <1>5, <1>12, <2>2, <3>1, <3>2
  <2> QED BY <2>1, <2>2
<1> HIDE DEF W
<1>15. \A T \in SUBSET S : T \in W
  <2>1. IsFiniteSet(S) BY DEF Readable
  <2> QED BY <1>14, <2>1, Shrinking
<1>16. h \in [SUBSET S -> D] BY <1>13, <1>15 DEF W
<1>17. ASSUME NEW T \in SUBSET S, T # {}
       PROVE  \E l \in T : (\A t \in T : l.opened >= t.opened) /\ h[T] = With(h[T \ {l}], l)
  BY <1>1, <1>12, <1>17
<1>18. h[{}] = <<>> BY <1>12
<1> QED BY <1>11, <1>16, <1>17, <1>18 DEF D

\* None of T opens after l.
OpensLast(l, T) == l \in T /\ \A t \in T : l.opened >= t.opened

\* Entry e is a run of reading of sessions of T: each session of it but those it opened with is
\* reached, within the gap, from one that opened before.
Run(e, T) ==
    /\ e.of \subseteq T
    /\ \A s \in e.of : e.opened <= s.opened /\ s.seen <= e.seen
    /\ \E s \in e.of : s.opened = e.opened
    /\ \E s \in e.of : s.seen = e.seen
    /\ \A s, u \in e.of : s.opened < u.opened =>
          \E v \in e.of : v.opened < u.opened /\ u.opened - v.seen <= MergeGap

\* All of e was over, longer than the gap, when any of f opened.
Over(e, f) == \A s \in e.of, t \in f.of : t.opened - s.seen > MergeGap

\* es are the runs of T, one after another.
Runs(es, T) ==
    /\ \A n \in DOMAIN es : Run(es[n], T)
    /\ \A s \in T : \E n \in DOMAIN es : s \in es[n].of
    /\ \A m, n \in DOMAIN es : m < n => Over(es[m], es[n])

LEMMA JoinedRun ==
    ASSUME NEW S, Readable(S), NEW T \in SUBSET S, NEW l, OpensLast(l, T),
           NEW e \in Entries(S), Run(e, T \ {l}), Joins(e, l)
    PROVE  Run(Joined(e, l), T)
<1> DEFINE j == Joined(e, l)
<1>0. l \in T /\ (\A t \in T : l.opened >= t.opened) /\ l.opened - e.seen <= MergeGap
  BY DEF OpensLast, Joins
<1>1. /\ e.of \subseteq T \ {l} /\ e.of \subseteq S /\ MergeGap \in Nat
      /\ e.opened \in Nat /\ e.seen \in Nat
      /\ \A s \in S : s.opened \in Nat /\ s.seen \in Nat
  BY <1>0, ViewsAssumption DEF Run, Readable, Entries
<1>2. /\ j.of = e.of \cup {l} /\ j.opened = e.opened
      /\ j.seen = IF e.seen >= l.seen THEN e.seen ELSE l.seen
  BY DEF Joined, Latest, Entries
<1> HIDE DEF j
<1>3. \A s \in j.of : j.opened <= s.opened /\ s.seen <= j.seen
  <2>1. PICK s \in e.of : s.opened = e.opened BY DEF Run
  <2>2. l.opened \in Nat /\ l.seen \in Nat /\ l.opened >= e.opened BY <1>0, <1>1, <2>1
  <2>3. \A t \in e.of : e.opened <= t.opened /\ t.seen <= e.seen /\ t.seen \in Nat BY <1>1 DEF Run
  <2> QED BY <1>1, <1>2, <2>2, <2>3
<1>4. \E s \in j.of : s.opened = j.opened BY <1>2 DEF Run
<1>5. \E s \in j.of : s.seen = j.seen BY <1>2 DEF Run
<1>6. ASSUME NEW s \in j.of, NEW u \in j.of, s.opened < u.opened
      PROVE  \E v \in j.of : v.opened < u.opened /\ u.opened - v.seen <= MergeGap
  <2>1. s \in T /\ u \in T /\ s.opened \in Nat /\ u.opened \in Nat /\ l.opened \in Nat /\ l.opened >= u.opened
    BY <1>0, <1>1, <1>2
  <2>2. s # l BY <1>6, <2>1
  <2>3. s \in e.of BY <1>2, <2>2
  <2>4. CASE u \in e.of
    <3>1. \E v \in e.of : v.opened < u.opened /\ u.opened - v.seen <= MergeGap BY <1>6, <2>3, <2>4 DEF Run
    <3> QED BY <1>2, <3>1
  <2>5. CASE u = l
    <3>1. PICK v \in e.of : v.seen = e.seen BY DEF Run
    <3>2. v.opened \in Nat /\ l.opened >= v.opened BY <1>0, <1>1, <3>1
    <3>3. CASE v.opened < l.opened BY <1>0, <1>2, <2>5, <3>1, <3>3
    <3>4. CASE v.opened = l.opened
      <4>1. \E w \in e.of : w.opened < v.opened /\ v.opened - w.seen <= MergeGap
        BY <1>6, <2>3, <2>5, <3>1, <3>4 DEF Run
      <4> QED BY <1>2, <2>5, <3>4, <4>1
    <3> QED BY <2>1, <3>2, <3>3, <3>4
  <2> QED BY <1>2, <2>4, <2>5
<1>7. j.of \subseteq T BY <1>0, <1>1, <1>2
<1>8. Run(j, T) BY <1>3, <1>4, <1>5, <1>6, <1>7 DEF Run
<1> QED BY <1>8 DEF j

LEMMA RunsWith ==
    ASSUME NEW S, Readable(S), \A s, t \in S : s.key = t.key,
           NEW T \in SUBSET S, NEW l, OpensLast(l, T),
           NEW es \in Seq(Entries(S)), Runs(es, T \ {l})
    PROVE  Runs(With(es, l), T)
<1> DEFINE L == Len(es)
<1>0. l \in T /\ \A t \in T : l.opened >= t.opened BY DEF OpensLast
<1>1. /\ L \in Nat /\ DOMAIN es = 1..L /\ MergeGap \in Nat
      /\ \A n \in 1..L : es[n] \in Entries(S) /\ Run(es[n], T \ {l}) /\ es[n].of \subseteq T
      /\ \A s \in S : s.opened \in Nat /\ s.seen \in Nat
  BY LenProperties, ElementOfSeq, ViewsAssumption DEF Runs, Run, Readable
<1>2. \A n \in 1..L : Run(es[n], T) BY <1>1 DEF Run
<1>3. \A n \in 1..L : es[n].key = l.key /\ es[n].seen \in Nat BY <1>0, <1>1 DEF Entries
<1>4. EntryOf(l) \in Entries(S) BY <1>0 DEF EntryOf, Entries, Readable
<1>5. \A m, n \in 1..L : m < n => Over(es[m], es[n]) BY <1>1 DEF Runs
<1>6. \A s \in T \ {l} : \E n \in 1..L : s \in es[n].of BY <1>1 DEF Runs
\* What was over when an entry opened is over when l opens.
<1>7. ASSUME NEW m \in 1..L, NEW n \in 1..L, m < n, NEW s \in es[m].of PROVE l.opened - s.seen > MergeGap
  <2>1. PICK t \in es[n].of : TRUE BY <1>2 DEF Run
  <2>2. t.opened - s.seen > MergeGap BY <1>5, <1>7 DEF Over
  <2>3. t \in T /\ s \in T BY <1>1
  <2>4. t.opened \in Nat /\ s.seen \in Nat /\ l.opened \in Nat /\ l.opened >= t.opened BY <1>0, <1>1, <2>3
  <2> QED BY <1>1, <2>2, <2>4
<1>8. CASE es # <<>> /\ Joins(es[L], l)
  <2> DEFINE r == [es EXCEPT ![L] = Joined(es[L], l)]
  <2>1. With(es, l) = r BY <1>8 DEF With
  <2>2. L \in 1..L BY <1>1, <1>8, EmptySeq
  <2>3. DOMAIN r = 1..L /\ r[L] = Joined(es[L], l) /\ \A n \in 1..L : n # L => r[n] = es[n] BY <1>1, <2>2
  <2> HIDE DEF r
  <2>4. Run(r[L], T) /\ r[L].of = es[L].of \cup {l}
    <3> DEFINE e == es[L]
    <3>1. e \in Entries(S) /\ Run(e, T \ {l}) /\ Joins(e, l) BY <1>1, <1>8, <2>2
    <3> HIDE DEF e, L
    <3>2. Run(Joined(e, l), T) BY <3>1, JoinedRun
    <3>3. Joined(e, l).of = e.of \cup {l} BY <3>1 DEF Joined, Entries
    <3> QED BY <2>3, <3>2, <3>3 DEF e
  <2>5. \A n \in DOMAIN r : Run(r[n], T) BY <1>2, <2>3, <2>4
  <2>6. \A s \in T : \E n \in DOMAIN r : s \in r[n].of
    <3> TAKE s \in T
    <3>1. CASE s = l BY <2>2, <2>3, <2>4, <3>1
    <3>2. CASE s # l
      <4>1. PICK n \in 1..L : s \in es[n].of BY <1>6, <3>2
      <4> QED BY <2>3, <2>4, <4>1
    <3> QED BY <3>1, <3>2
  <2>7. ASSUME NEW m \in DOMAIN r, NEW n \in DOMAIN r, m < n PROVE Over(r[m], r[n])
    <3>1. m \in 1..L /\ n \in 1..L BY <2>3, <2>7
    <3>2. m # L BY <2>2, <2>7, <3>1
    <3>3. r[m] = es[m] BY <2>3, <3>1, <3>2
    <3>4. CASE n # L BY <1>5, <2>3, <2>7, <3>1, <3>3, <3>4
    <3>5. CASE n = L
      <4>1. Over(es[m], es[n]) BY <1>5, <2>7, <3>1
      <4>2. \A s \in es[m].of : l.opened - s.seen > MergeGap BY <1>7, <2>7, <3>1
      <4> QED BY <2>4, <3>3, <3>5, <4>1, <4>2 DEF Over
    <3> QED BY <3>4, <3>5
  <2> QED BY <2>1, <2>5, <2>6, <2>7 DEF Runs
<1>9. CASE ~(es # <<>> /\ Joins(es[L], l))
  <2> DEFINE r == Append(es, EntryOf(l))
  <2>1. With(es, l) = r BY <1>9 DEF With
  <2>2. /\ r \in Seq(Entries(S)) /\ Len(r) = L + 1 /\ r[L + 1] = EntryOf(l)
        /\ \A n \in 1..L : r[n] = es[n]
    BY <1>4, AppendProperties
  <2>3. DOMAIN r = 1..L + 1 BY <2>2, LenProperties
  <2> HIDE DEF r
  <2>4. \A n \in DOMAIN r : n \in 1..L \/ n = L + 1 BY <1>1, <2>3
  <2>5. Run(r[L + 1], T) /\ r[L + 1].of = {l}
    <3>1. l \in T /\ l.opened \in Nat /\ l.seen \in Nat BY <1>0, <1>1
    <3>3. Run(EntryOf(l), T) BY <3>1 DEF EntryOf, Run
    <3>2. EntryOf(l).of = {l} BY DEF EntryOf
    <3> QED BY <2>2, <3>2, <3>3
  <2>6. \A n \in DOMAIN r : Run(r[n], T) BY <1>2, <2>2, <2>4, <2>5
  <2>7. \A s \in T : \E n \in DOMAIN r : s \in r[n].of
    <3> TAKE s \in T
    <3>1. CASE s = l
      <4>1. L + 1 \in DOMAIN r BY <1>1, <2>3
      <4> QED BY <2>5, <3>1, <4>1
    <3>2. CASE s # l
      <4>1. PICK n \in 1..L : s \in es[n].of BY <1>6, <3>2
      <4>2. n \in DOMAIN r BY <1>1, <2>3
      <4> QED BY <2>2, <4>1, <4>2
    <3> QED BY <3>1, <3>2
  \* The last entry was over when l opened.
  <2>8. ASSUME NEW s \in es[L].of, L \in 1..L PROVE l.opened - s.seen > MergeGap
    <3>1. es # <<>>
      <4>1. Len(<<>>) = 0 BY EmptySeq
      <4>2. L # 0 BY <2>8
      <4> QED BY <4>1, <4>2
    <3>2. l.opened - es[L].seen > MergeGap
      <4>1. l.opened \in Nat /\ es[L].seen \in Nat /\ l.key = es[L].key BY <1>0, <1>1, <1>3, <2>8
      <4>2. ~(l.opened - es[L].seen <= MergeGap) BY <1>9, <3>1, <4>1 DEF Joins
      <4> QED BY <1>1, <4>1, <4>2
    <3>3. s.seen <= es[L].seen /\ s \in T BY <1>1, <1>2, <2>8 DEF Run
    <3>4. s.seen \in Nat /\ es[L].seen \in Nat /\ l.opened \in Nat BY <1>0, <1>1, <1>3, <2>8, <3>3
    <3> QED BY <1>1, <3>2, <3>3, <3>4
  <2>9. ASSUME NEW m \in DOMAIN r, NEW n \in DOMAIN r, m < n PROVE Over(r[m], r[n])
    <3>1. m \in 1..L /\ r[m] = es[m] BY <1>1, <2>2, <2>3, <2>9
    <3>2. CASE n \in 1..L BY <1>5, <2>2, <2>9, <3>1, <3>2
    <3>3. CASE n = L + 1
      <4>1. \A s \in es[m].of : l.opened - s.seen > MergeGap
        <5>1. CASE m = L BY <2>8, <3>1, <5>1
        <5>2. CASE m # L
          <6>1. L \in 1..L /\ m < L BY <1>1, <3>1, <5>2
          <6> QED BY <1>7, <3>1, <6>1
        <5> QED BY <5>1, <5>2
      <4> QED BY <2>5, <3>1, <3>3, <4>1 DEF Over
    <3> QED BY <2>4, <3>2, <3>3
  <2> QED BY <2>1, <2>6, <2>7, <2>9 DEF Runs
<1> QED BY <1>8, <1>9

\* The entries of one PDF are the runs of its sessions.
LEMMA EntriesOfKey ==
    ASSUME NEW S, Readable(S), \A s, t \in S : s.key = t.key
    PROVE  \E es \in Seq(Entries(S)) : Runs(es, S) /\ KeyEntries(S) = {es[n] : n \in DOMAIN es}
<1>1. PICK f \in [SUBSET S -> Seq(Entries(S))] :
         /\ f[{}] = <<>> /\ KeyEntries(S) = {f[S][n] : n \in DOMAIN f[S]}
         /\ \A T \in SUBSET S : T # {} =>
               \E l \in T : (\A t \in T : l.opened >= t.opened) /\ f[T] = With(f[T \ {l}], l)
  BY EntriesSteps
<1> DEFINE W == {T \in SUBSET S : Runs(f[T], T)}
<1>2. ASSUME NEW T \in SUBSET S, \A x \in T : T \ {x} \in W PROVE T \in W
  <2>1. CASE T = {}
    <3>1. DOMAIN f[T] = {} BY <1>1, <2>1
    <3> QED BY <2>1, <3>1 DEF Runs
  <2>2. CASE T # {}
    <3>1. PICK l \in T : (\A t \in T : l.opened >= t.opened) /\ f[T] = With(f[T \ {l}], l) BY <1>1, <2>2
    <3>2. f[T \ {l}] \in Seq(Entries(S)) BY <1>1
    <3>3. Runs(f[T \ {l}], T \ {l}) BY <1>2
    <3>4. OpensLast(l, T) BY <3>1 DEF OpensLast
    <3>5. Runs(With(f[T \ {l}], l), T) BY <3>2, <3>3, <3>4, RunsWith
    <3> QED BY <3>1, <3>5
  <2> QED BY <2>1, <2>2
<1> HIDE DEF W
<1>3. S \in W
  <2>1. IsFiniteSet(S) BY DEF Readable
  <2> QED BY <1>2, <2>1, Shrinking
<1>4. Runs(f[S], S) BY <1>3 DEF W
<1>5. f[S] \in Seq(Entries(S)) BY <1>1
<1> QED BY <1>1, <1>4, <1>5

\* Session u of S opens an entry: those of its PDF that opened before were over.
Opens(S, u) == \A v \in S : v.key = u.key /\ v.opened < u.opened => u.opened - v.seen > MergeGap

\* One that opens an entry lies between s and t.
Parted(S, s, t) == \E u \in S : u.key = s.key /\ s.opened < u.opened /\ u.opened <= t.opened /\ Opens(S, u)

OfKey(S, k) == {s \in S : s.key = k}

\* The runs of one PDF follow one another, and each begins with one that opens an entry.
LEMMA RunsFollow ==
    ASSUME NEW S, Readable(S), NEW k, NEW es \in Seq(Entries(OfKey(S, k))), Runs(es, OfKey(S, k))
    PROVE  /\ \A n \in DOMAIN es : es[n].key = k /\ es[n].of \subseteq OfKey(S, k)
           /\ \A m, n \in DOMAIN es : m < n =>
                 \A s \in es[m].of, t \in es[n].of : s.opened < t.opened /\ t.opened - s.seen > MergeGap
           /\ \A n \in DOMAIN es : \A s, u \in es[n].of : s.opened < u.opened => ~Opens(S, u)
           /\ \A n \in DOMAIN es : \E u \in es[n].of : Opens(S, u) /\ \A t \in es[n].of : u.opened <= t.opened
<1>1. /\ DOMAIN es = 1..Len(es) /\ Len(es) \in Nat /\ MergeGap \in Nat
      /\ \A s \in S : s.opened \in Nat /\ s.seen \in Nat /\ s.opened <= s.seen
  BY LenProperties, ViewsAssumption DEF Readable
<1>2. \A n \in DOMAIN es : es[n].key = k /\ es[n].of \subseteq OfKey(S, k)
  <2> TAKE n \in DOMAIN es
  <2>1. es[n] \in Entries(OfKey(S, k)) BY <1>1, ElementOfSeq
  <2> QED BY <2>1 DEF Entries, OfKey
<1>3. \A s \in OfKey(S, k) : s \in S /\ s.key = k BY DEF OfKey
<1>4. ASSUME NEW m \in DOMAIN es, NEW n \in DOMAIN es, m < n, NEW s \in es[m].of, NEW t \in es[n].of
      PROVE  s.opened < t.opened /\ t.opened - s.seen > MergeGap
  <2>1. t.opened - s.seen > MergeGap BY <1>4 DEF Runs, Over
  <2>2. s \in S /\ t \in S BY <1>2, <1>3
  <2> QED BY <1>1, <2>1, <2>2
<1>5. ASSUME NEW n \in DOMAIN es, NEW s \in es[n].of, NEW u \in es[n].of, s.opened < u.opened
      PROVE  ~Opens(S, u)
  <2>1. PICK v \in es[n].of : v.opened < u.opened /\ u.opened - v.seen <= MergeGap BY <1>5 DEF Runs, Run
  <2>2. v \in S /\ v.key = u.key /\ u \in S BY <1>2, <1>3
  <2>3. ~(u.opened - v.seen > MergeGap) BY <1>1, <2>1, <2>2
  <2> QED BY <2>1, <2>2, <2>3 DEF Opens
<1>6. ASSUME NEW n \in DOMAIN es
      PROVE  \E u \in es[n].of : Opens(S, u) /\ \A t \in es[n].of : u.opened <= t.opened
  <2>1. PICK u \in es[n].of : u.opened = es[n].opened BY DEF Runs, Run
  <2>2. \A t \in es[n].of : u.opened <= t.opened BY <2>1 DEF Runs, Run
  <2>3. u \in S /\ u.key = k BY <1>2, <1>3
  <2>4. ASSUME NEW v \in S, v.key = u.key, v.opened < u.opened PROVE u.opened - v.seen > MergeGap
    <3>1. v \in OfKey(S, k) BY <2>3, <2>4 DEF OfKey
    <3>2. PICK m \in DOMAIN es : v \in es[m].of BY <3>1 DEF Runs
    <3>3. m # n BY <1>1, <2>2, <2>3, <2>4, <3>2
    <3>4. ~(n < m)
      <4>1. n < m => u.opened < v.opened BY <1>4, <3>2
      <4> QED BY <1>1, <2>3, <2>4, <4>1
    <3>5. m < n BY <1>1, <3>3, <3>4
    <3> QED BY <1>4, <3>2, <3>5
  <2>5. Opens(S, u) BY <2>4 DEF Opens
  <2> QED BY <2>2, <2>5
<1> QED BY <1>2, <1>4, <1>5, <1>6

LEMMA RunsTogether ==
    ASSUME NEW S, Readable(S), NEW k, NEW es \in Seq(Entries(OfKey(S, k))), Runs(es, OfKey(S, k)),
           NEW n \in DOMAIN es, NEW s \in S
    PROVE  s \in es[n].of <=> s.key = es[n].key /\ \A t \in es[n].of : ~Parted(S, s, t) /\ ~Parted(S, t, s)
<1>1. /\ \A i \in DOMAIN es : es[i].key = k /\ es[i].of \subseteq OfKey(S, k)
      /\ \A i, j \in DOMAIN es : i < j => \A a \in es[i].of, b \in es[j].of : a.opened < b.opened
      /\ \A i \in DOMAIN es : \A a, u \in es[i].of : a.opened < u.opened => ~Opens(S, u)
      /\ \A i \in DOMAIN es : \E u \in es[i].of : Opens(S, u) /\ \A t \in es[i].of : u.opened <= t.opened
  BY RunsFollow
<1>2. /\ DOMAIN es = 1..Len(es) /\ Len(es) \in Nat /\ \A a \in S : a.opened \in Nat
      /\ \A a \in OfKey(S, k) : a \in S /\ a.key = k
  BY LenProperties DEF Readable, OfKey
<1>3. \A a \in OfKey(S, k) : \E i \in DOMAIN es : a \in es[i].of BY DEF Runs
<1>4. ASSUME NEW a \in es[n].of, NEW b \in es[n].of, Parted(S, a, b) PROVE FALSE
  <2>1. PICK u \in S : u.key = a.key /\ a.opened < u.opened /\ u.opened <= b.opened /\ Opens(S, u)
    BY <1>4 DEF Parted
  <2>2. a \in S /\ a.key = k /\ b \in S BY <1>1, <1>2
  <2>3. u \in OfKey(S, k) BY <2>1, <2>2 DEF OfKey
  <2>4. PICK m \in DOMAIN es : u \in es[m].of BY <1>3, <2>3
  <2>5. a.opened \in Nat /\ u.opened \in Nat /\ b.opened \in Nat BY <1>2, <2>2
  <2>6. ~(m < n)
    <3>1. m < n => u.opened < a.opened BY <1>1, <2>4
    <3> QED BY <2>1, <2>5, <3>1
  <2>7. ~(n < m)
    <3>1. n < m => b.opened < u.opened BY <1>1, <2>4
    <3> QED BY <2>1, <2>5, <3>1
  <2>8. m = n BY <1>2, <2>6, <2>7
  <2> QED BY <1>1, <2>1, <2>4, <2>8
<1>5. ASSUME s \notin es[n].of, s.key = es[n].key
      PROVE  \E t \in es[n].of : Parted(S, s, t) \/ Parted(S, t, s)
  <2>1. s \in OfKey(S, k) /\ s.key = k BY <1>1, <1>5 DEF OfKey
  <2>2. PICK m \in DOMAIN es : s \in es[m].of BY <1>3, <2>1
  <2>3. CASE m < n
    <3>1. PICK u \in es[n].of : Opens(S, u) BY <1>1
    <3>2. u \in S /\ u.key = k /\ u.opened \in Nat BY <1>1, <1>2
    <3>3. s.opened < u.opened BY <1>1, <2>2, <2>3
    <3>4. u.opened <= u.opened BY <3>2
    <3>5. Parted(S, s, u) BY <2>1, <3>1, <3>2, <3>3, <3>4 DEF Parted
    <3> QED BY <3>5
  <2>4. CASE n < m
    <3>1. PICK u \in es[m].of : Opens(S, u) /\ \A t \in es[m].of : u.opened <= t.opened BY <1>1
    <3>2. PICK t \in es[n].of : TRUE BY <1>1
    <3>3. u \in S /\ u.key = k /\ t.key = k BY <1>1, <1>2
    <3>4. t.opened < u.opened /\ u.opened <= s.opened BY <1>1, <2>2, <2>4, <3>1
    <3>5. Parted(S, t, s) BY <3>1, <3>3, <3>4 DEF Parted
    <3> QED BY <3>5
  <2>5. m # n BY <1>5, <2>2
  <2> QED BY <1>2, <2>3, <2>4, <2>5
<1>6. s \in es[n].of => s.key = es[n].key BY <1>1, <1>2
<1> QED BY <1>4, <1>5, <1>6

\* No entry is left out for the time read when the minimum is 0.
LEMMA TimelineIs ==
    ASSUME NEW S, Readable(S)
    PROVE  TimelineEntries(S, 0) = UNION {KeyEntries(OfKey(S, k)) : k \in {s.key : s \in S}}
<1>1. \A k : Readable(OfKey(S, k)) /\ \A s, t \in OfKey(S, k) : s.key = t.key BY FS_Subset DEF Readable, OfKey
<1>2. ASSUME NEW k, NEW e \in KeyEntries(OfKey(S, k)) PROVE SecondsOf(e.of) >= 0
  <2>1. PICK es \in Seq(Entries(OfKey(S, k))) : KeyEntries(OfKey(S, k)) = {es[n] : n \in DOMAIN es}
    BY <1>1, EntriesOfKey
  <2>2. PICK n \in 1..Len(es) : e = es[n] BY <2>1, LenProperties
  <2>3. e \in Entries(OfKey(S, k)) BY <2>2, ElementOfSeq
  <2>4. e.of \subseteq OfKey(S, k) BY <2>3 DEF Entries
  <2>5. Readable(e.of) BY <1>1, <2>4, FS_Subset DEF Readable
  <2>6. SecondsOf(e.of) \in Nat BY <2>5, SecondsAreNat
  <2> QED BY <2>6
<1>3. TimelineEntries(S, 0) = {e \in UNION {KeyEntries(OfKey(S, k)) : k \in {s.key : s \in S}} : SecondsOf(e.of) >= 0}
  BY DEF TimelineEntries, OfKey
<1> QED BY <1>2, <1>3

\* Each entry of the Timeline is one of the runs of its PDF, and these are its sessions.
LEMMA EntryOfRuns ==
    ASSUME NEW S, Readable(S), NEW e \in TimelineEntries(S, 0)
    PROVE  \E k : \E es \in Seq(Entries(OfKey(S, k))) :
              Runs(es, OfKey(S, k)) /\ \E n \in DOMAIN es : e = es[n]
<1>1. PICK k : e \in KeyEntries(OfKey(S, k)) BY TimelineIs
<1>2. Readable(OfKey(S, k)) /\ \A s, t \in OfKey(S, k) : s.key = t.key BY FS_Subset DEF Readable, OfKey
<1>3. PICK es \in Seq(Entries(OfKey(S, k))) :
         Runs(es, OfKey(S, k)) /\ KeyEntries(OfKey(S, k)) = {es[n] : n \in DOMAIN es}
  BY <1>2, EntriesOfKey
<1>4. \E n \in DOMAIN es : e = es[n] BY <1>1, <1>3
<1> QED BY <1>3, <1>4

LEMMA EntriesExact == ASSUME Readable(sessions) PROVE EntriesAreRuns
<1> DEFINE S == sessions
           E == TimelineEntries(S, 0)
<1>1. \A s \in S : \E e \in E : s \in e.of
  <2> TAKE s \in S
  <2>1. Readable(OfKey(S, s.key)) /\ \A a, b \in OfKey(S, s.key) : a.key = b.key
    BY FS_Subset DEF Readable, OfKey
  <2>2. PICK es \in Seq(Entries(OfKey(S, s.key))) :
           Runs(es, OfKey(S, s.key)) /\ KeyEntries(OfKey(S, s.key)) = {es[n] : n \in DOMAIN es}
    BY <2>1, EntriesOfKey
  <2>3. s \in OfKey(S, s.key) BY DEF OfKey
  <2>4. PICK n \in DOMAIN es : s \in es[n].of BY <2>2, <2>3 DEF Runs
  <2>5. es[n] \in E BY <2>2, TimelineIs
  <2> QED BY <2>4, <2>5
<1>2. ASSUME NEW e \in E
      PROVE  /\ \A s \in S : s \in e.of <=>
                   s.key = e.key /\ \A t \in e.of : ~Parted(S, s, t) /\ ~Parted(S, t, s)
             /\ \A s \in e.of : e.opened <= s.opened /\ s.seen <= e.seen
             /\ \E s \in e.of : e.seen = s.seen
  <2>0. PICK k : \E es \in Seq(Entries(OfKey(S, k))) :
                    Runs(es, OfKey(S, k)) /\ \E n \in DOMAIN es : e = es[n]
    BY EntryOfRuns
  <2>1. PICK es \in Seq(Entries(OfKey(S, k))) : Runs(es, OfKey(S, k)) /\ \E n \in DOMAIN es : e = es[n]
    BY <2>0
  <2>2. PICK n \in DOMAIN es : e = es[n] BY <2>1
  <2>3. Run(e, OfKey(S, k)) BY <2>1, <2>2 DEF Runs
  <2>4. \A s \in S : s \in es[n].of <=>
           s.key = es[n].key /\ \A t \in es[n].of : ~Parted(S, s, t) /\ ~Parted(S, t, s)
    BY <2>1, RunsTogether
  <2> QED BY <2>2, <2>3, <2>4 DEF Run
<1> DEFINE parted(s, t) ==
              \E u \in S : /\ u.key = s.key /\ s.opened < u.opened /\ u.opened <= t.opened
                           /\ \A v \in S : v.key = s.key /\ v.opened < u.opened => u.opened - v.seen > MergeGap
<1>3. \A s, t : parted(s, t) <=> Parted(S, s, t) BY DEF Parted, Opens
<1>4. \A e \in E, s \in S : s \in e.of <=> s.key = e.key /\ \A t \in e.of : ~parted(s, t) /\ ~parted(t, s)
  <2> HIDE DEF parted, E, S
  <2> QED BY <1>2, <1>3
<1>5. \A e \in E : /\ \A s \in e.of : e.opened <= s.opened /\ s.seen <= e.seen
                   /\ \E s \in e.of : e.seen = s.seen
  BY <1>2
<1> QED BY <1>1, <1>4, <1>5 DEF EntriesAreRuns

-----------------------------------------------------------------------------
(* The ranges of pages.                                                          *)

Spans == Seq(Nat \X Nat)

\* The ranges rs with page after them.
Reach(rs, page) ==
    IF rs # <<>> /\ Extends(rs[Len(rs)], page)
    THEN [rs EXCEPT ![Len(rs)] = <<rs[Len(rs)][1], page>>] ELSE Append(rs, <<page, page>>)

LEMMA ReachTyped == ASSUME NEW rs \in Spans, NEW p \in Nat PROVE Reach(rs, p) \in Spans
<1>1. Append(rs, <<p, p>>) \in Spans
  <2>1. <<p, p>> \in Nat \X Nat OBVIOUS
  <2> QED BY <2>1, AppendProperties DEF Spans
<1>2. CASE rs # <<>>
  <2>1. rs \in Seq(Nat \X Nat) BY DEF Spans
  <2>2. Len(rs) \in 1..Len(rs) BY <1>2, <2>1, EmptySeq
  <2>3. rs[Len(rs)] \in Nat \X Nat BY <2>1, <2>2, ElementOfSeq
  <2>4. <<rs[Len(rs)][1], p>> \in Nat \X Nat BY <2>3
  <2>5. [rs EXCEPT ![Len(rs)] = <<rs[Len(rs)][1], p>>] \in Spans BY <2>1, <2>2, <2>4, ExceptSeq DEF Spans
  <2> QED BY <1>1, <2>5 DEF Reach
<1>3. CASE rs = <<>> BY <1>1, <1>3 DEF Reach
<1> QED BY <1>2, <1>3

\* PageRanges goes through the pages, the last of them last.
LEMMA RangesSteps ==
    ASSUME NEW S \in SUBSET Nat, IsFiniteSet(S)
    PROVE  \E f \in [SUBSET S -> Spans] :
              /\ f[{}] = <<>> /\ PageRanges(S) = f[S]
              /\ \A T \in SUBSET S : T # {} =>
                    \E p \in T : (\A q \in T : p >= q) /\ f[T] = Reach(f[T \ {p}], p)
<1> DEFINE D == Spans
           Last(T) == CHOOSE p \in T : \A q \in T : p >= q
           P == [T \in SUBSET S |-> Last(T)]
           H == [T \in SUBSET S |-> [r \in D |-> IF T = {} THEN <<>> ELSE Reach(r, P[T])]]
           Is(f) == f = [T \in SUBSET S |->
                            IF T = {} THEN <<>>
                            ELSE LET page == CHOOSE p \in T : \A q \in T : p >= q
                                     rs == f[T \ {page}]
                                 IN IF rs # <<>> /\ Extends(rs[Len(rs)], page)
                                    THEN [rs EXCEPT ![Len(rs)] = <<rs[Len(rs)][1], page>>]
                                    ELSE Append(rs, <<page, page>>)]
<1>1. \A T \in SUBSET S : T # {} => Last(T) \in T /\ \A q \in T : Last(T) >= q
  <2> DEFINE at == [p \in S |-> p]
  <2>1. \A p \in S : at[p] \in Nat /\ at[p] = p OBVIOUS
  <2> HIDE DEF at
  <2>2. \A T \in SUBSET S : T # {} => \E m \in T : \A t \in T : at[m] >= at[t] BY <2>1, Highest
  <2> SUFFICES ASSUME NEW T \in SUBSET S, T # {} PROVE Last(T) \in T /\ \A q \in T : Last(T) >= q
    OBVIOUS
  <2>3. \E m \in T : \A t \in T : m >= t BY <2>1, <2>2
  <2> QED BY <2>3
<1>2. \A T \in SUBSET S : P[T] = Last(T) OBVIOUS
<1> HIDE DEF Last
<1>3. \A T \in SUBSET S : T # {} => P[T] \in T BY <1>1, <1>2
<1>4. <<>> \in D BY EmptySeq DEF Spans
<1>5. \A T \in SUBSET S : \A r \in D : T # {} => Reach(r, P[T]) \in D
  <2>1. \A T \in SUBSET S : T # {} => P[T] \in Nat BY <1>3
  <2> QED BY <2>1, ReachTyped
<1> HIDE DEF P, D
<1>6. \A T \in SUBSET S : \A r \in D : H[T][r] \in D BY <1>4, <1>5
<1>7. \A T \in SUBSET S, r \in D : T # {} => H[T][r] = Reach(r, P[T]) OBVIOUS
<1> HIDE DEF H
<1>8. PICK g \in [SUBSET S -> D] :
         g[{}] = <<>> /\ \A T \in SUBSET S : T # {} => g[T] = H[T][g[T \ {P[T]}]]
  <2> DEFINE base == <<>>
  <2>1. base \in D /\ Makes(H, S, D) /\ Picks(P, S) BY <1>3, <1>4, <1>6 DEF Makes, Picks
  <2> HIDE DEF base, Is
  <2>2. \E f \in [SUBSET S -> D] : Peels(f, S, base, P, H) BY <2>1, Peeling
  <2> QED BY <2>2 DEF base, Peels
<1>9. \E f : Is(f)
  <2>1. \A T \in SUBSET S : g[T] = IF T = {} THEN <<>> ELSE Reach(g[T \ {Last(T)}], Last(T))
    <3> TAKE T \in SUBSET S
    <3>1. CASE T = {} BY <1>8, <3>1
    <3>2. CASE T # {}
      <4>1. T \ {P[T]} \in SUBSET S OBVIOUS
      <4>2. g[T \ {P[T]}] \in D BY <1>8, <4>1
      <4>3. g[T] = Reach(g[T \ {P[T]}], P[T]) BY <1>7, <1>8, <3>2, <4>2
      <4> QED BY <1>2, <3>2, <4>3
    <3> QED BY <3>1, <3>2
  <2>2. Is(g) BY <1>8, <2>1 DEF Reach, Last
  <2> QED BY <2>2
<1> DEFINE h == CHOOSE f : Is(f)
<1>10. Is(h) BY <1>9
<1>11. PageRanges(S) = h[S] BY DEF PageRanges
<1> HIDE DEF h
<1>12. \A T \in SUBSET S : h[T] = IF T = {} THEN <<>> ELSE Reach(h[T \ {Last(T)}], Last(T))
  BY <1>10 DEF Reach, Last
<1>13. DOMAIN h = SUBSET S /\ h = [T \in SUBSET S |-> h[T]] BY <1>10
<1> DEFINE W == {T \in SUBSET S : h[T] \in D}
<1>14. ASSUME NEW T \in SUBSET S, \A x \in T : T \ {x} \in W PROVE T \in W
  <2>1. CASE T = {} BY <1>4, <1>12, <2>1
  <2>2. CASE T # {}
    <3>1. P[T] \in T /\ P[T] = Last(T) BY <1>2, <1>3, <2>2
    <3>2. h[T \ {P[T]}] \in D BY <1>14, <3>1
    <3> QED BY <1>5, <1>12, <2>2, <3>1, <3>2
  <2> QED BY <2>1, <2>2
<1> HIDE DEF W
<1>15. \A T \in SUBSET S : T \in W BY <1>14, Shrinking
<1>16. h \in [SUBSET S -> D] BY <1>13, <1>15 DEF W
<1>17. ASSUME NEW T \in SUBSET S, T # {}
       PROVE  \E p \in T : (\A q \in T : p >= q) /\ h[T] = Reach(h[T \ {p}], p)
  BY <1>1, <1>12, <1>17
<1>18. h[{}] = <<>> BY <1>12
<1> QED BY <1>11, <1>16, <1>17, <1>18 DEF D

\* Ranges that name the pages of T and no other, none of which could be one with the next.
Names(rs, T) ==
    /\ \A n \in DOMAIN rs : \A p \in rs[n][1]..rs[n][2] : p \in T
    /\ \A p \in T : \E n \in DOMAIN rs : p \in rs[n][1]..rs[n][2]
    /\ \A n \in DOMAIN rs : rs[n][1] <= rs[n][2] /\ (n > 1 => rs[n - 1][2] + 1 < rs[n][1])

LEMMA ReachNames ==
    ASSUME NEW T \in SUBSET Nat, NEW p \in T, \A q \in T : p >= q, NEW rs \in Spans, Names(rs, T \ {p})
    PROVE  Names(Reach(rs, p), T)
<1> DEFINE L == Len(rs)
<1>1. /\ L \in Nat /\ DOMAIN rs = 1..L /\ p \in Nat
      /\ \A n \in 1..L : rs[n] \in Nat \X Nat
  BY LenProperties, ElementOfSeq DEF Spans
<1>2. \A n \in 1..L : rs[n][1] \in Nat /\ rs[n][2] \in Nat BY <1>1
<1>3. /\ \A n \in 1..L : \A q \in rs[n][1]..rs[n][2] : q \in T \ {p}
      /\ \A q \in T \ {p} : \E n \in 1..L : q \in rs[n][1]..rs[n][2]
      /\ \A n \in 1..L : rs[n][1] <= rs[n][2] /\ (n > 1 => rs[n - 1][2] + 1 < rs[n][1])
  BY <1>1 DEF Names
<1>4. \A n \in 1..L : rs[n][2] < p
  <2> TAKE n \in 1..L
  <2>1. rs[n][2] \in rs[n][1]..rs[n][2] BY <1>2, <1>3
  <2>2. rs[n][2] \in T \ {p} BY <1>3, <2>1
  <2> QED BY <1>1, <1>2, <2>2
<1>5. CASE rs # <<>> /\ Extends(rs[L], p)
  <2> DEFINE r == [rs EXCEPT ![L] = <<rs[L][1], p>>]
  <2>1. Reach(rs, p) = r BY <1>5 DEF Reach
  <2>2. L \in 1..L BY <1>1, <1>5, EmptySeq DEF Spans
  <2>3. /\ DOMAIN r = 1..L /\ r[L][1] = rs[L][1] /\ r[L][2] = p
        /\ \A n \in 1..L : n # L => r[n] = rs[n]
    BY <1>1, <2>2
  <2> HIDE DEF r
  <2>4. p = rs[L][2] + 1 BY <1>5 DEF Extends
  <2> DEFINE a == rs[L][1]
             b == rs[L][2]
  <2>5. a \in Nat /\ b \in Nat /\ a <= b /\ p = b + 1 /\ r[L][1] = a /\ r[L][2] = b + 1
    BY <1>2, <1>3, <2>2, <2>3, <2>4
  <2> HIDE DEF a, b
  <2>6. r[L][1] <= r[L][2] /\ \A q \in Nat : q \in r[L][1]..r[L][2] <=> q = p \/ q \in a..b BY <2>5
  <2>7. \A q \in Nat : q \in r[L][1]..r[L][2] <=> q = p \/ q \in rs[L][1]..rs[L][2] BY <2>6 DEF a, b
  <2>8. \A q \in r[L][1]..r[L][2] : q \in Nat BY <2>5
  <2>9. \A n \in 1..L : \A q \in r[n][1]..r[n][2] : q \in T
    <3> TAKE n \in 1..L
    <3>1. CASE n = L BY <1>3, <2>2, <2>7, <2>8, <3>1
    <3>2. CASE n # L BY <1>3, <2>3, <3>2
    <3> QED BY <3>1, <3>2
  <2>10. \A q \in T : \E n \in 1..L : q \in r[n][1]..r[n][2]
    <3> TAKE q \in T
    <3>1. CASE q = p
      <4>1. p \in r[L][1]..r[L][2] BY <2>7
      <4> QED BY <2>2, <3>1, <4>1
    <3>2. CASE q # p
      <4>1. PICK n \in 1..L : q \in rs[n][1]..rs[n][2] BY <1>3, <3>2
      <4>2. CASE n = L
        <5>1. q \in r[L][1]..r[L][2] BY <2>7, <4>1, <4>2
        <5> QED BY <2>2, <5>1
      <4>3. CASE n # L BY <2>3, <4>1, <4>3
      <4> QED BY <4>2, <4>3
    <3> QED BY <3>1, <3>2
  <2>11. \A n \in 1..L : r[n][1] <= r[n][2] /\ (n > 1 => r[n - 1][2] + 1 < r[n][1])
    <3> TAKE n \in 1..L
    <3>1. r[n][1] = rs[n][1] /\ r[n][1] <= r[n][2]
      <4>1. CASE n = L BY <2>3, <2>6, <4>1
      <4>2. CASE n # L BY <1>3, <2>3, <4>2
      <4> QED BY <4>1, <4>2
    <3>2. n > 1 => r[n - 1][2] = rs[n - 1][2]
      <4>1. n > 1 => n - 1 \in 1..L /\ n - 1 # L BY <1>1
      <4> QED BY <2>3, <4>1
    <3> QED BY <1>3, <3>1, <3>2
  <2> QED BY <2>1, <2>3, <2>9, <2>10, <2>11 DEF Names
<1>6. CASE ~(rs # <<>> /\ Extends(rs[L], p))
  <2> DEFINE r == Append(rs, <<p, p>>)
  <2>1. Reach(rs, p) = r BY <1>6 DEF Reach
  <2>2. <<p, p>> \in Nat \X Nat BY <1>1
  <2>3. /\ r \in Seq(Nat \X Nat) /\ Len(r) = L + 1 /\ r[L + 1] = <<p, p>>
        /\ \A n \in 1..L : r[n] = rs[n]
    BY <2>2, AppendProperties DEF Spans
  <2>4. DOMAIN r = 1..L + 1 BY <2>3, LenProperties
  <2> HIDE DEF r
  <2>5. \A n \in 1..L + 1 : n \in 1..L \/ n = L + 1 BY <1>1
  <2>6. L + 1 \in 1..L + 1 /\ \A n \in 1..L : n \in 1..L + 1 BY <1>1
  <2>7. r[L + 1][1] = p /\ r[L + 1][2] = p /\ p..p = {p} BY <1>1, <2>3
  <2>8. \A n \in 1..L + 1 : \A q \in r[n][1]..r[n][2] : q \in T BY <1>3, <2>3, <2>5, <2>7
  <2>9. \A q \in T : \E n \in 1..L + 1 : q \in r[n][1]..r[n][2]
    <3> TAKE q \in T
    <3>1. CASE q = p BY <2>6, <2>7, <3>1
    <3>2. CASE q # p
      <4>1. PICK n \in 1..L : q \in rs[n][1]..rs[n][2] BY <1>3, <3>2
      <4> QED BY <2>3, <2>6, <4>1
    <3> QED BY <3>1, <3>2
  <2>10. \A n \in 1..L + 1 : r[n][1] <= r[n][2] /\ (n > 1 => r[n - 1][2] + 1 < r[n][1])
    <3> TAKE n \in 1..L + 1
    <3>1. CASE n \in 1..L
      <4>1. n > 1 => n - 1 \in 1..L BY <1>1, <3>1
      <4> QED BY <1>3, <2>3, <3>1, <4>1
    <3>2. CASE n = L + 1
      <4>1. n > 1 => L \in 1..L /\ n - 1 = L BY <1>1, <3>2
      <4>2. n > 1 => rs # <<>> /\ rs[L][2] < p /\ rs[L][2] \in Nat
        <5>1. rs = <<>> => L = 0 BY EmptySeq
        <5> QED BY <1>2, <1>4, <4>1, <5>1
      <4>3. n > 1 => p # rs[L][2] + 1 BY <1>6, <4>2 DEF Extends
      <4>4. n > 1 => rs[L][2] + 1 < p BY <1>1, <4>2, <4>3
      <4>5. n > 1 => r[n - 1] = rs[L] BY <2>3, <4>1
      <4> QED BY <1>1, <2>7, <3>2, <4>4, <4>5
    <3> QED BY <2>5, <3>1, <3>2
  <2> QED BY <2>1, <2>4, <2>8, <2>9, <2>10 DEF Names
<1> QED BY <1>5, <1>6

LEMMA RangesName == ASSUME NEW S \in SUBSET Nat, IsFiniteSet(S) PROVE Names(PageRanges(S), S)
<1>1. PICK f \in [SUBSET S -> Spans] :
         /\ f[{}] = <<>> /\ PageRanges(S) = f[S]
         /\ \A T \in SUBSET S : T # {} =>
               \E p \in T : (\A q \in T : p >= q) /\ f[T] = Reach(f[T \ {p}], p)
  BY RangesSteps
<1> DEFINE W == {T \in SUBSET S : Names(f[T], T)}
<1>2. ASSUME NEW T \in SUBSET S, \A x \in T : T \ {x} \in W PROVE T \in W
  <2>1. CASE T = {}
    <3>1. DOMAIN f[T] = {} BY <1>1, <2>1
    <3> QED BY <2>1, <3>1 DEF Names
  <2>2. CASE T # {}
    <3>1. PICK p \in T : (\A q \in T : p >= q) /\ f[T] = Reach(f[T \ {p}], p) BY <1>1, <2>2
    <3>2. f[T \ {p}] \in Spans /\ Names(f[T \ {p}], T \ {p}) /\ T \in SUBSET Nat BY <1>1, <1>2
    <3>3. Names(Reach(f[T \ {p}], p), T) BY <3>1, <3>2, ReachNames
    <3> QED BY <3>1, <3>3
  <2> QED BY <2>1, <2>2
<1> HIDE DEF W
<1>3. S \in W BY <1>2, Shrinking
<1> QED BY <1>1, <1>3 DEF W

\* The pages of an entry are finitely many.
LEMMA PagesFinite ==
    ASSUME NEW S, Readable(S)
    PROVE  UNION {s.pages : s \in S} \subseteq Nat /\ IsFiniteSet(UNION {s.pages : s \in S})
<1> DEFINE T == {s.pages : s \in S}
           f == [s \in S |-> s.pages]
<1>1. f \in Surjection(S, T) BY DEF Surjection
<1>2. IsFiniteSet(T) BY <1>1, FS_Surjection DEF Readable
<1>3. \A P \in T : IsFiniteSet(P) /\ P \subseteq Nat BY DEF Readable
<1>4. IsFiniteSet(UNION T)
  <2> HIDE DEF T
  <2> QED BY <1>2, <1>3, FS_UNION
<1> QED BY <1>3, <1>4

LEMMA RangesAre == ASSUME Readable(sessions) PROVE RangesExact
<1> SUFFICES ASSUME NEW e \in TimelineEntries(sessions, 0)
             PROVE  LET pages == UNION {s.pages : s \in e.of}
                        rs == PageRanges(pages)
                    IN /\ UNION {rs[n][1]..rs[n][2] : n \in DOMAIN rs} = pages
                       /\ \A n \in DOMAIN rs : n > 1 => rs[n - 1][2] + 1 < rs[n][1]
  BY DEF RangesExact
<1> DEFINE pages == UNION {s.pages : s \in e.of}
           rs == PageRanges(pages)
<1>0. PICK k : \E es \in Seq(Entries(OfKey(sessions, k))) :
                  Runs(es, OfKey(sessions, k)) /\ \E n \in DOMAIN es : e = es[n]
  BY EntryOfRuns
<1>1. PICK es \in Seq(Entries(OfKey(sessions, k))) :
         Runs(es, OfKey(sessions, k)) /\ \E n \in DOMAIN es : e = es[n]
  BY <1>0
<1>2. e.of \subseteq sessions BY <1>1 DEF Runs, Run, OfKey
<1>3. Readable(e.of) BY <1>2, FS_Subset DEF Readable
<1>4. pages \subseteq Nat /\ IsFiniteSet(pages) BY <1>3, PagesFinite
<1> HIDE DEF pages
<1>5. Names(rs, pages) BY <1>4, RangesName
<1> HIDE DEF rs
<1>6. UNION {rs[n][1]..rs[n][2] : n \in DOMAIN rs} = pages
  <2>1. \A p \in pages : p \in UNION {rs[n][1]..rs[n][2] : n \in DOMAIN rs} BY <1>5 DEF Names
  <2>2. \A p \in UNION {rs[n][1]..rs[n][2] : n \in DOMAIN rs} : p \in pages BY <1>5 DEF Names
  <2> QED BY <2>1, <2>2
<1>7. \A n \in DOMAIN rs : n > 1 => rs[n - 1][2] + 1 < rs[n][1] BY <1>5 DEF Names
<1> QED BY <1>6, <1>7 DEF rs, pages

-----------------------------------------------------------------------------
(* The columns.                                                                  *)

\* Each column is in o once.
Laid(o) ==
    /\ o \in Seq(ColumnIds) /\ Len(o) = Len(Columns)
    /\ \A i, j \in 1..Len(o) : o[i] = o[j] => i = j
    /\ \A c \in ColumnIds : \E i \in 1..Len(o) : o[i] = c

LEMMA BeforeIs ==
    ASSUME NEW C, NEW o \in Seq(C), NEW i \in 1..Len(o), \A j \in 1..Len(o) : o[j] = o[i] => j = i
    PROVE  Before(o, o[i]) = i - 1
<1>1. Len(o) \in Nat BY LenProperties
<1>2. i - 1 \in 0..Len(o) - 1 /\ (i - 1) + 1 = i BY <1>1
<1>3. o[(i - 1) + 1] = o[i] BY <1>2
<1>4. \A n \in 0..Len(o) - 1 : o[n + 1] = o[i] => n = i - 1
  <2> TAKE n \in 0..Len(o) - 1
  <2>1. n + 1 \in 1..Len(o) BY <1>1
  <2>2. o[n + 1] = o[i] => n + 1 = i BY <2>1
  <2> QED BY <1>1, <2>2
<1> QED BY <1>2, <1>3, <1>4 DEF Before

LEMMA WithoutIs ==
    ASSUME NEW C, NEW o \in Seq(C), NEW i \in 1..Len(o), \A j \in 1..Len(o) : o[j] = o[i] => j = i
    PROVE  /\ Without(o, o[i]) \in Seq(C) /\ Len(Without(o, o[i])) = Len(o) - 1
           /\ \A j \in 1..Len(o) - 1 : Without(o, o[i])[j] = IF j < i THEN o[j] ELSE o[j + 1]
<1> DEFINE a == SubSeq(o, 1, i - 1)
           b == SubSeq(o, i + 1, Len(o))
<1>1. Len(o) \in Nat /\ \A j \in 1..Len(o) : o[j] \in C BY LenProperties, ElementOfSeq
<1>2. Without(o, o[i]) = a \o b
  <2>1. Before(o, o[i]) = i - 1 BY BeforeIs
  <2>2. (i - 1) + 2 = i + 1 BY <1>1
  <2> QED BY <2>1, <2>2 DEF Without
<1>3. a \in Seq(C) /\ Len(a) = i - 1 /\ \A j \in 1..i - 1 : a[j] = o[j]
  <2>1. \A j \in 1..i - 1 : o[j] \in C BY <1>1
  <2>2. /\ a \in Seq(C) /\ Len(a) = IF 1 <= i - 1 THEN (i - 1) - 1 + 1 ELSE 0
        /\ \A j \in 1..(i - 1) - 1 + 1 : a[j] = o[1 + j - 1]
    BY <2>1, SubSeqProperties
  <2> HIDE DEF a
  <2>3. Len(a) = i - 1 BY <1>1, <2>2
  <2>4. \A j \in 1..i - 1 : j \in 1..(i - 1) - 1 + 1 /\ 1 + j - 1 = j BY <1>1
  <2> QED BY <2>2, <2>3, <2>4
<1>4. b \in Seq(C) /\ Len(b) = Len(o) - i /\ \A j \in 1..Len(o) - i : b[j] = o[i + j]
  <2>1. \A j \in i + 1..Len(o) : o[j] \in C BY <1>1
  <2>2. /\ b \in Seq(C) /\ Len(b) = IF i + 1 <= Len(o) THEN Len(o) - (i + 1) + 1 ELSE 0
        /\ \A j \in 1..Len(o) - (i + 1) + 1 : b[j] = o[(i + 1) + j - 1]
    BY <1>1, <2>1, SubSeqProperties
  <2> HIDE DEF b
  <2>3. Len(b) = Len(o) - i BY <1>1, <2>2
  <2>4. \A j \in 1..Len(o) - i : j \in 1..Len(o) - (i + 1) + 1 /\ (i + 1) + j - 1 = i + j BY <1>1
  <2> QED BY <2>2, <2>3, <2>4
<1> HIDE DEF a, b
<1>5. /\ a \o b \in Seq(C) /\ Len(a \o b) = Len(a) + Len(b)
      /\ \A j \in 1..Len(a) + Len(b) : (a \o b)[j] = IF j <= Len(a) THEN a[j] ELSE b[j - Len(a)]
  BY <1>3, <1>4, ConcatProperties
<1>6. Len(a) + Len(b) = Len(o) - 1 BY <1>1, <1>3, <1>4
<1>7. ASSUME NEW j \in 1..Len(o) - 1 PROVE (a \o b)[j] = IF j < i THEN o[j] ELSE o[j + 1]
  <2>1. CASE j < i
    <3>1. j \in 1..i - 1 /\ j <= Len(a) BY <1>1, <1>3, <2>1
    <3> QED BY <1>3, <1>5, <1>6, <2>1, <3>1
  <2>2. CASE ~(j < i)
    <3>1. ~(j <= Len(a)) /\ j - Len(a) \in 1..Len(o) - i /\ i + (j - Len(a)) = j + 1 BY <1>1, <1>3, <2>2
    <3>2. b[j - Len(a)] = o[i + (j - Len(a))] BY <1>4, <3>1
    <3> QED BY <1>5, <1>6, <2>2, <3>1, <3>2
  <2> QED BY <2>1, <2>2
<1> QED BY <1>2, <1>5, <1>6, <1>7

\* r is o with x after its first n.
Inserted(C, r, o, n, x) ==
    /\ r \in Seq(C) /\ Len(r) = Len(o) + 1
    /\ \A j \in 1..n : r[j] = o[j]
    /\ r[n + 1] = x
    /\ \A j \in n + 2..Len(o) + 1 : r[j] = o[j - 1]

LEMMA InsertIs ==
    ASSUME NEW C, NEW o \in Seq(C), NEW n \in 0..Len(o), NEW x \in C
    PROVE  Inserted(C, Insert(o, n, x), o, n, x)
<1> DEFINE a == SubSeq(o, 1, n)
           b == SubSeq(o, n + 1, Len(o))
           c == a \o <<x>>
<1>1. Len(o) \in Nat /\ \A j \in 1..Len(o) : o[j] \in C BY LenProperties, ElementOfSeq
<1>2. a \in Seq(C) /\ Len(a) = n /\ \A j \in 1..n : a[j] = o[j]
  <2>1. \A j \in 1..n : o[j] \in C BY <1>1
  <2>2. /\ a \in Seq(C) /\ Len(a) = IF 1 <= n THEN n - 1 + 1 ELSE 0
        /\ \A j \in 1..n - 1 + 1 : a[j] = o[1 + j - 1]
    BY <2>1, SubSeqProperties
  <2> HIDE DEF a
  <2>3. Len(a) = n BY <1>1, <2>2
  <2>4. \A j \in 1..n : j \in 1..n - 1 + 1 /\ 1 + j - 1 = j BY <1>1
  <2> QED BY <2>2, <2>3, <2>4
<1>3. b \in Seq(C) /\ Len(b) = Len(o) - n /\ \A j \in 1..Len(o) - n : b[j] = o[n + j]
  <2>1. \A j \in n + 1..Len(o) : o[j] \in C BY <1>1
  <2>2. /\ b \in Seq(C) /\ Len(b) = IF n + 1 <= Len(o) THEN Len(o) - (n + 1) + 1 ELSE 0
        /\ \A j \in 1..Len(o) - (n + 1) + 1 : b[j] = o[(n + 1) + j - 1]
    BY <1>1, <2>1, SubSeqProperties
  <2> HIDE DEF b
  <2>3. Len(b) = Len(o) - n BY <1>1, <2>2
  <2>4. \A j \in 1..Len(o) - n : j \in 1..Len(o) - (n + 1) + 1 /\ (n + 1) + j - 1 = n + j BY <1>1
  <2> QED BY <2>2, <2>3, <2>4
<1> HIDE DEF a, b
<1>4. c \in Seq(C) /\ Len(c) = n + 1 /\ c[n + 1] = x /\ \A j \in 1..n : c[j] = o[j]
  <2>1. <<x>> \in Seq(C) /\ Len(<<x>>) = 1 /\ <<x>>[1] = x OBVIOUS
  <2>2. /\ c \in Seq(C) /\ Len(c) = Len(a) + Len(<<x>>)
        /\ \A j \in 1..Len(a) + Len(<<x>>) : c[j] = IF j <= Len(a) THEN a[j] ELSE <<x>>[j - Len(a)]
    BY <1>2, <2>1, ConcatProperties
  <2> HIDE DEF c
  <2>3. c[n + 1] = x
    <3>1. n + 1 \in 1..Len(a) + Len(<<x>>) /\ ~(n + 1 <= Len(a)) /\ (n + 1) - Len(a) = 1 BY <1>1, <1>2, <2>1
    <3> QED BY <2>1, <2>2, <3>1
  <2>4. \A j \in 1..n : c[j] = o[j]
    <3> TAKE j \in 1..n
    <3>1. j \in 1..Len(a) + Len(<<x>>) /\ j <= Len(a) BY <1>1, <1>2, <2>1
    <3> QED BY <1>2, <2>2, <3>1
  <2> QED BY <1>2, <2>1, <2>2, <2>3, <2>4
<1>5. Insert(o, n, x) = c \o b BY DEF Insert, a, b
<1> HIDE DEF c
<1>6. /\ c \o b \in Seq(C) /\ Len(c \o b) = Len(c) + Len(b)
      /\ \A j \in 1..Len(c) + Len(b) : (c \o b)[j] = IF j <= Len(c) THEN c[j] ELSE b[j - Len(c)]
  BY <1>3, <1>4, ConcatProperties
<1>7. Len(c) + Len(b) = Len(o) + 1 BY <1>1, <1>3, <1>4
<1>8. \A j \in 1..n + 1 : (c \o b)[j] = c[j]
  <2> TAKE j \in 1..n + 1
  <2>1. j \in 1..Len(o) + 1 /\ j <= Len(c) BY <1>1, <1>4
  <2> QED BY <1>6, <1>7, <2>1
<1>9. ASSUME NEW j \in n + 2..Len(o) + 1 PROVE (c \o b)[j] = o[j - 1]
  <2>1. /\ j \in 1..Len(o) + 1 /\ ~(j <= Len(c)) /\ j - Len(c) \in 1..Len(o) - n
        /\ n + (j - Len(c)) = j - 1
    BY <1>1, <1>4
  <2>2. b[j - Len(c)] = o[n + (j - Len(c))] BY <1>3, <2>1
  <2> QED BY <1>6, <1>7, <2>1, <2>2
<1>10. n + 1 \in 1..n + 1 /\ \A j \in 1..n : j \in 1..n + 1 BY <1>1
<1> QED BY <1>4, <1>5, <1>6, <1>7, <1>8, <1>9, <1>10 DEF Inserted

\* r has the members of o, each once.
Alike(C, r, o) ==
    /\ r \in Seq(C) /\ Len(r) = Len(o)
    /\ \A j, m \in 1..Len(r) : r[j] = r[m] => j = m
    /\ \A j \in 1..Len(o) : \E m \in 1..Len(r) : r[m] = o[j]

\* A member taken from its place in o and put into any other.
LEMMA MovedOnce ==
    ASSUME NEW C, NEW o \in Seq(C), \A i, j \in 1..Len(o) : o[i] = o[j] => i = j,
           NEW i \in 1..Len(o), NEW n \in 0..Len(o) - 1
    PROVE  Alike(C, Insert(Without(o, o[i]), n, o[i]), o)
<1> DEFINE x == o[i]
           q == Without(o, x)
           r == Insert(q, n, x)
           N == Len(o)
<1>1. N \in Nat /\ x \in C /\ i \in 1..N BY LenProperties, ElementOfSeq
<1>2. \A j \in 1..N : o[j] = x => j = i OBVIOUS
<1>3. /\ q \in Seq(C) /\ Len(q) = N - 1
      /\ \A j \in 1..N - 1 : q[j] = IF j < i THEN o[j] ELSE o[j + 1]
  BY <1>2, WithoutIs
<1> HIDE DEF q
<1>4. /\ r \in Seq(C) /\ Len(r) = N /\ r[n + 1] = x
      /\ \A j \in 1..n : r[j] = q[j]
      /\ \A j \in n + 2..N : r[j] = q[j - 1]
  <2>1. n \in 0..Len(q) /\ Len(q) + 1 = N BY <1>1, <1>3
  <2>3. q \in Seq(C) /\ x \in C BY <1>1, <1>3
  <2> HIDE DEF x, N
  <2>2. Inserted(C, r, q, n, x) BY <2>1, <2>3, InsertIs
  <2> HIDE DEF r
  <2> QED BY <2>1, <2>2 DEF Inserted
<1> HIDE DEF r
<1> DEFINE from(j) == IF j < i THEN j ELSE j + 1
           at(j) == IF j = n + 1 THEN i ELSE IF j <= n THEN from(j) ELSE from(j - 1)
<1>5. \A j \in 1..N - 1 : from(j) \in 1..N /\ from(j) # i /\ q[j] = o[from(j)] BY <1>1, <1>3
<1>6. ASSUME NEW j \in 1..N PROVE at(j) \in 1..N /\ r[j] = o[at(j)]
  <2>1. CASE j = n + 1 BY <1>1, <1>4, <2>1
  <2>2. CASE j <= n
    <3>1. j \in 1..n /\ j \in 1..N - 1 /\ j # n + 1 BY <1>1, <2>2
    <3>2. at(j) = from(j) BY <2>2, <3>1
    <3> HIDE DEF from, at
    <3> QED BY <1>4, <1>5, <3>1, <3>2
  <2>3. CASE j > n + 1
    <3>1. j \in n + 2..N /\ j - 1 \in 1..N - 1 /\ j # n + 1 /\ ~(j <= n) BY <1>1, <2>3
    <3>2. at(j) = from(j - 1) BY <3>1
    <3> HIDE DEF from, at
    <3> QED BY <1>4, <1>5, <3>1, <3>2
  <2> QED BY <1>1, <2>1, <2>2, <2>3
<1>7. \A j, m \in 1..N : at(j) = at(m) => j = m BY <1>1
<1>8. \A j, m \in 1..N : r[j] = r[m] => j = m
  <2> HIDE DEF at
  <2> TAKE j, m \in 1..N
  <2> HAVE r[j] = r[m]
  <2>1. o[at(j)] = o[at(m)] /\ at(j) \in 1..N /\ at(m) \in 1..N BY <1>6
  <2> QED BY <1>7, <2>1
<1>9. \A j \in 1..N : \E m \in 1..N : at(m) = j
  <2> TAKE j \in 1..N
  <2> DEFINE k == IF j < i THEN j ELSE j - 1
  <2>1. CASE j = i
    <3>1. n + 1 \in 1..N /\ at(n + 1) = j BY <1>1, <2>1
    <3> QED BY <3>1
  <2>2. CASE j # i /\ k <= n
    <3>1. k \in 1..N /\ at(k) = j BY <1>1, <2>2
    <3> QED BY <3>1
  <2>3. CASE j # i /\ k > n
    <3>1. k + 1 \in 1..N /\ at(k + 1) = j BY <1>1, <2>3
    <3> QED BY <3>1
  <2> QED BY <1>1, <2>1, <2>2, <2>3
<1>10. \A j \in 1..N : \E m \in 1..N : r[m] = o[j]
  <2> TAKE j \in 1..N
  <2>1. PICK m \in 1..N : at(m) = j BY <1>9
  <2> HIDE DEF at
  <2> QED BY <1>6, <2>1
<1>11. r = Insert(Without(o, o[i]), n, o[i]) BY DEF r, q
<1> HIDE DEF N
<1>12. r \in Seq(C) /\ Len(r) = N /\ N = Len(o) BY <1>4 DEF N
<1>13. Alike(C, r, o) BY <1>8, <1>10, <1>12 DEF Alike
<1> QED BY <1>11, <1>13

LEMMA ReorderedLaid ==
    ASSUME NEW o, Laid(o), NEW x \in ColumnIds, NEW t \in ColumnIds, x # t
    PROVE  Laid(Reordered(o, x, t))
<1>1. o \in Seq(ColumnIds) /\ Len(o) \in Nat /\ \A i, j \in 1..Len(o) : o[i] = o[j] => i = j
  BY LenProperties DEF Laid
<1>2. PICK i \in 1..Len(o) : o[i] = x BY DEF Laid
<1>3. PICK k \in 1..Len(o) : o[k] = t BY DEF Laid
<1> DEFINE rest == Without(o, x)
           at == IF k < i THEN k ELSE k - 1
<1>4. \A j \in 1..Len(o) : o[j] = o[i] => j = i BY <1>1
<1>5. /\ rest \in Seq(ColumnIds) /\ Len(rest) = Len(o) - 1
      /\ \A j \in 1..Len(o) - 1 : rest[j] = IF j < i THEN o[j] ELSE o[j + 1]
  BY <1>1, <1>2, <1>4, WithoutIs
<1> HIDE DEF rest
<1>6. k # i BY <1>2, <1>3
<1>7. at \in 1..Len(o) - 1 /\ rest[at] = t
  <2>1. at \in 1..Len(o) - 1 BY <1>1, <1>6
  <2>2. CASE k < i BY <1>3, <1>5, <2>1, <2>2
  <2>3. CASE ~(k < i)
    <3>1. ~(at < i) /\ at + 1 = k BY <1>1, <1>6, <2>3
    <3> QED BY <1>3, <1>5, <2>1, <3>1
  <2> QED BY <2>1, <2>2, <2>3
<1> HIDE DEF at
<1>8. \A j \in 1..Len(rest) : rest[j] = rest[at] => j = at
  <2> SUFFICES ASSUME NEW j \in 1..Len(o) - 1, rest[j] = t PROVE j = at BY <1>5, <1>7
  <2> DEFINE from == IF j < i THEN j ELSE j + 1
  <2>1. from \in 1..Len(o) BY <1>1
  <2>2. o[from] = t BY <1>5
  <2>3. from = k BY <1>1, <1>3, <2>1, <2>2
  <2> QED BY <1>1, <2>3 DEF at
<1>9. Before(rest, t) = at - 1
  <2>1. at \in 1..Len(rest) BY <1>5, <1>7
  <2>2. Before(rest, rest[at]) = at - 1 BY <1>5, <1>8, <2>1, BeforeIs
  <2> QED BY <1>7, <2>2
<1>10. at - 1 \in 0..Len(o) - 1 BY <1>1, <1>7
<1> DEFINE r == Reordered(o, x, t)
<1>11. r = Insert(Without(o, o[i]), at - 1, o[i]) BY <1>2, <1>9 DEF Reordered, rest
<1>12. Alike(ColumnIds, r, o)
  <2> DEFINE n == at - 1
  <2>1. n \in 0..Len(o) - 1 /\ r = Insert(Without(o, o[i]), n, o[i]) BY <1>10, <1>11
  <2> HIDE DEF n, r
  <2>2. Alike(ColumnIds, Insert(Without(o, o[i]), n, o[i]), o) BY <1>1, <2>1, MovedOnce
  <2> QED BY <2>1, <2>2
<1> HIDE DEF r
<1>13. \A c \in ColumnIds : \E m \in 1..Len(r) : r[m] = c
  <2> TAKE c \in ColumnIds
  <2>1. PICK j \in 1..Len(o) : o[j] = c BY DEF Laid
  <2> QED BY <1>12, <2>1 DEF Alike
<1>14. Len(r) = Len(Columns) BY <1>12 DEF Alike, Laid
<1>15. Laid(r) BY <1>12, <1>13, <1>14 DEF Alike, Laid
<1> QED BY <1>15 DEF r

\* The default order has each column once.
LEMMA ColumnsLaid == Laid(Columns)
<1>1. Columns \in Seq(ColumnIds) BY ViewsAssumption DEF ColumnIds
<1>2. DOMAIN Columns = 1..Len(Columns) BY <1>1, LenProperties
<1> QED BY <1>1, <1>2, ViewsAssumption DEF Laid, ColumnIds

-----------------------------------------------------------------------------
(* The invariant.                                                                *)

\* No two actions have one combination.
KeysApart == \A a, b \in Actions : Keybindings[a] = Keybindings[b] => a = b

ViewsInv ==
    /\ Readable(sessions)
    /\ Laid(order) /\ LockedColumn \in visible /\ kept = [order |-> order, visible |-> visible]
    /\ KeysApart /\ OneActionEach

LEMMA Bindings ==
    ASSUME ViewsInv, NEW a, NEW k, ~InUse(a, k), saved' = [Keybindings EXCEPT ![a] = k]
    PROVE  KeysApart'
<1>1. \A b, c \in Actions : Keybindings[b] = Keybindings[c] => b = c BY DEF ViewsInv, KeysApart
<1>2. DOMAIN Keybindings = Actions BY DEF Keybindings
<1>3. \A b \in Actions \ {a} : Keybindings[b] # k BY DEF InUse
<1>4. \A b \in Actions : saved'[b] = IF b = a THEN k ELSE Keybindings[b]
  <2> HIDE DEF Keybindings
  <2> QED BY <1>2
<1>5. \A b, c \in Actions : saved'[b] = saved'[c] => b = c BY <1>1, <1>3, <1>4
<1>6. \A b, c \in Actions : Bound[b] = Bound[c] => b = c BY ViewsAssumption DEF Actions
<1>7. Actions' = Actions BY DEF Actions
<1> QED BY <1>5, <1>6, <1>7 DEF KeysApart, Keybindings

LEMMA LaidOut ==
    ASSUME ViewsInv, NEW o, Laid(o), NEW v, Lay(o, v)
    PROVE  ViewsInv'
<1>1. /\ order' = o /\ visible' = v \cup {LockedColumn} /\ kept' = [order |-> o, visible |-> v \cup {LockedColumn}]
      /\ sessions' = sessions /\ saved' = saved /\ did' = did
  BY DEF Lay
<1>2. KeysApart' /\ OneActionEach' BY <1>1 DEF ViewsInv, KeysApart, OneActionEach, Keybindings, Actions
<1> QED BY <1>1, <1>2 DEF ViewsInv

LEMMA ColumnsKeep == ASSUME ViewsInv, ColumnsNext PROVE ViewsInv'
<1>1. ASSUME NEW c \in ColumnIds, ToggleColumn(c) PROVE ViewsInv'
  BY <1>1, LaidOut DEF ToggleColumn, ViewsInv
<1>2. ASSUME NEW c \in ColumnIds, NEW t \in ColumnIds, ReorderColumn(c, t) PROVE ViewsInv'
  <2>1. Laid(Reordered(order, c, t)) BY <1>2, ReorderedLaid DEF ReorderColumn, ViewsInv
  <2> QED BY <1>2, <2>1, LaidOut DEF ReorderColumn
<1>3. CASE ShowAllColumns BY <1>3, LaidOut DEF ShowAllColumns, ViewsInv
<1>4. CASE ResetColumns BY <1>4, ColumnsLaid, LaidOut DEF ResetColumns
<1>5. CASE Reopen
  <2>1. /\ order' = order /\ visible' = visible \cup {LockedColumn} /\ did' = {}
        /\ sessions' = sessions /\ kept' = kept /\ saved' = saved
    BY <1>5 DEF Reopen, ViewsInv
  <2>2. visible' = visible BY <2>1 DEF ViewsInv
  <2>3. KeysApart' /\ OneActionEach' BY <2>1 DEF ViewsInv, KeysApart, OneActionEach, Keybindings, Actions
  <2> QED BY <2>1, <2>2, <2>3 DEF ViewsInv
<1> QED BY <1>1, <1>2, <1>3, <1>4, <1>5 DEF ColumnsNext

\* What the keys do leaves the columns; the combinations stay apart.
LEMMA KeysKeep == ASSUME ViewsInv, KeysNext PROVE ViewsInv'
<1>1. UNCHANGED <<sessions, order, visible, kept>>
  BY DEF KeysNext, FocusOn, Record, RecordKey, Press, ResetKeybindings, Unlaid
<1>2. \A a, b \in Actions : Bound[a] = Bound[b] => a = b BY ViewsAssumption DEF Actions
<1>3. saved' = saved => KeysApart' BY DEF ViewsInv, KeysApart, Keybindings, Actions
<1>4. did' = {} => OneActionEach' BY DEF OneActionEach
<1>5. ASSUME NEW p \in Foci, FocusOn(p) PROVE KeysApart' /\ OneActionEach' BY <1>3, <1>4, <1>5 DEF FocusOn
<1>6. ASSUME NEW a \in Actions, Record(a) PROVE KeysApart' /\ OneActionEach' BY <1>3, <1>4, <1>6 DEF Record
<1>7. ASSUME NEW k \in Keys, RecordKey(k) PROVE KeysApart' /\ OneActionEach'
  <2>1. CASE k \in Recordable /\ ~InUse(recording, k)
    <3>1. saved' = [Keybindings EXCEPT ![recording] = k] BY <1>7, <2>1 DEF RecordKey
    <3>2. KeysApart' BY <2>1, <3>1, Bindings
    <3> QED BY <1>4, <1>7, <3>2 DEF RecordKey
  <2>2. CASE ~(k \in Recordable /\ ~InUse(recording, k)) BY <1>3, <1>4, <1>7, <2>2 DEF RecordKey
  <2> QED BY <2>1, <2>2
<1>8. ASSUME NEW k \in Keys, Press(k) PROVE KeysApart' /\ OneActionEach'
  <2>1. did' = Doing(k) /\ saved' = saved BY <1>8 DEF Press
  <2> DEFINE bound == {a \in Actions : Keybindings[a] = k}
  <2>2. /\ Doing(k) \subseteq bound \cup {"open", "delete"}
        /\ Doing(k) \cap {"open", "delete"} # {} => "focusSearch" \notin bound
        /\ "open" \in Doing(k) => k \in OpenKeys
        /\ "delete" \in Doing(k) => k \in DeleteKeys
    BY ViewsAssumption DEF Doing, Actions
  <2>3. \A a \in bound : a \in Actions /\ Keybindings[a] = k OBVIOUS
  <2>4. \A a, b \in bound : a = b BY <2>3 DEF ViewsInv, KeysApart
  <2> HIDE DEF bound
  <2>5. ASSUME NEW x \in Doing(k), NEW y \in Doing(k), x # y
        PROVE  /\ {x, y} \cap {"open", "delete"} # {}
               /\ \E a \in {x, y} \cap Actions : a # "focusSearch" /\ Keybindings[a] \in OpenKeys \cup DeleteKeys
    <3>1. {x, y} \cap {"open", "delete"} # {} BY <2>2, <2>4, <2>5
    <3>2. "focusSearch" \notin bound /\ k \in OpenKeys \cup DeleteKeys BY <2>2, <3>1
    <3>3. {x, y} \cap bound # {} BY <2>2, <2>5, ViewsAssumption
    <3> QED BY <2>3, <3>1, <3>2, <3>3
  <2>6. Keybindings' = Keybindings BY <2>1 DEF Keybindings, Actions
  <2> QED BY <1>3, <2>1, <2>5, <2>6 DEF OneActionEach, Actions
<1>9. ASSUME ResetKeybindings PROVE KeysApart' /\ OneActionEach'
  <2>1. saved' = NoAction /\ did' = {} BY <1>9 DEF ResetKeybindings
  <2> QED BY <1>2, <1>4, <2>1 DEF KeysApart, Keybindings, Actions
<1>10. KeysApart' /\ OneActionEach' BY <1>5, <1>6, <1>7, <1>8, <1>9 DEF KeysNext
<1> QED BY <1>1, <1>10 DEF ViewsInv

LEMMA InvExact == ASSUME ViewsInv PROVE ViewsExact
<1>1. EntriesAreRuns /\ RangesExact BY EntriesExact, RangesAre DEF ViewsInv
<1>2. ColumnsKept
  <2>1. Laid(order) /\ LockedColumn \in visible /\ kept = [order |-> order, visible |-> visible] BY DEF ViewsInv
  <2>2. order \in Seq(ColumnIds) /\ DOMAIN order = 1..Len(order) /\ \A n \in 1..Len(order) : order[n] \in ColumnIds
    BY <2>1, LenProperties, ElementOfSeq DEF Laid
  <2>3. {order[n] : n \in DOMAIN order} = ColumnIds
    <3>1. \A c \in ColumnIds : \E n \in DOMAIN order : order[n] = c BY <2>1, <2>2 DEF Laid
    <3> QED BY <2>2, <3>1
  <2>4. ReadLayout BY <2>1, <2>2 DEF ReadLayout, Laid
  <2> QED BY <2>1, <2>3, <2>4 DEF ColumnsKept, Laid
<1>3. OneActionEach BY DEF ViewsInv
<1> QED BY <1>1, <1>2, <1>3 DEF ViewsExact

\* What a window makes of what it holds, all at once.
ViewsNext == ColumnsNext \/ KeysNext
ViewsSpec(held) == ViewsInit(held) /\ [][ViewsNext]_viewsVars

\* A window's Timeline, table and keys are what they mean (timeline.ts, columnModel.ts,
\* useLibraryTable.ts, keyboardShortcuts.ts): for any sessions a reader stored, any columns
\* and keys, and however columns are dragged and combinations recorded, each entry is one run of
\* reading with its pages exactly, each column is there once, and a press does one bound action at most, with open or delete beside
\* it only where a combination with Enter or Delete is bound.
THEOREM ViewsExactHolds == ASSUME NEW held, Readable(held) PROVE ViewsSpec(held) => []ViewsExact
<1>1. ViewsInit(held) => ViewsInv
  <2> SUFFICES ASSUME ViewsInit(held) PROVE ViewsInv OBVIOUS
  <2>1. /\ sessions = held /\ order = Columns /\ visible = Shown
        /\ kept = [order |-> order, visible |-> visible] /\ saved = NoAction /\ did = {}
    BY DEF ViewsInit
  <2>2. KeysApart BY <2>1, ViewsAssumption DEF KeysApart, Keybindings, Actions
  <2>3. OneActionEach BY <2>1 DEF OneActionEach
  <2> QED BY <2>1, <2>2, <2>3, ColumnsLaid, ViewsAssumption DEF ViewsInv
<1>2. ViewsInv /\ [ViewsNext]_viewsVars => ViewsInv'
  <2>1. ViewsInv /\ UNCHANGED viewsVars => ViewsInv'
    <3> SUFFICES ASSUME ViewsInv, UNCHANGED viewsVars PROVE ViewsInv' OBVIOUS
    <3>1. /\ sessions' = sessions /\ order' = order /\ visible' = visible /\ kept' = kept
          /\ saved' = saved /\ did' = did
      BY DEF viewsVars
    <3>2. KeysApart' /\ OneActionEach' BY <3>1 DEF ViewsInv, KeysApart, OneActionEach, Keybindings, Actions
    <3> QED BY <3>1, <3>2 DEF ViewsInv
  <2> QED BY <2>1, ColumnsKeep, KeysKeep DEF ViewsNext
<1>3. ViewsInv => ViewsExact BY InvExact
<1> QED BY <1>1, <1>2, <1>3, PTL DEF ViewsSpec
=============================================================================
