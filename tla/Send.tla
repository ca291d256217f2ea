------------------------------- MODULE Send -------------------------------
(***************************************************************************)
(* One item of the bucket and everything that takes it to Zotero or away:  *)
(* the sends of server/src/send.rs, the delete, and the extraction plugins *)
(* whose Markdown a send attaches (extractions.rs, Store::place_extraction,*)
(* Store::remove), while its user annotates it, adds and deletes notes and *)
(* files it, and Zotero refuses, answers late or not at all.               *)
(*                                                                         *)
(* A PDF is the number of annotations in it, since one_pdf compares        *)
(* nothing else; a Markdown or an artifacts directory is the request whose *)
(* plugin wrote it; a note is its id.                                      *)
(***************************************************************************)
EXTENDS Integers, FiniteSets

CONSTANTS
    Sends, Extracts, PdfOnlys,  \* the requests of the three ways to send
    Deletes,        \* the requests to delete the item
    Runs,           \* the requests to extract it with a plugin
    WithArtifacts,  \* the requests whose plugin writes artifacts too
    CutOff,         \* the requests whose client may disconnect
    Notes,          \* the notes the user may add
    Pdfs,           \* attachments of the Zotero item that may hold a PDF
    Patient,        \* whether the reader annotates between sends only
    MaxMarks,       \* how many annotations a PDF may get
    None

Senders == Sends \cup Extracts \cup PdfOnlys
Serialized == Senders \cup Deletes
Requests == Serialized \cup Runs
Kinds == {"fields", "pdf", "markdown"}
Steps == Kinds \cup Notes
Records == [method : {"item", "standalone"}, steps : SUBSET Steps]

ASSUME RequestsAssumption ==
    /\ None \notin Requests
    /\ Sends \cap (Extracts \cup PdfOnlys \cup Deletes \cup Runs) = {}
    /\ Extracts \cap (PdfOnlys \cup Deletes \cup Runs) = {}
    /\ PdfOnlys \cap (Deletes \cup Runs) = {}
    /\ Deletes \cap Runs = {}
    /\ WithArtifacts \subseteq Extracts \cup Runs
    /\ CutOff \subseteq Deletes \cup Runs      \* a send is a task of its own
ASSUME NotesAssumption == Notes \cap Kinds = {}
ASSUME NoneAssumption == None \notin Nat \cup Pdfs \cup Records
ASSUME BoundsAssumption == Patient \in BOOLEAN /\ MaxMarks \in Nat

VARIABLES
    stored,     \* whether the PDF lies in the data root
    marks,      \* the annotations in it
    markdown,   \* whose Markdown lies beside it
    artifacts,  \* whose artifacts lie beside it
    notes,      \* the notes in the item's filing
    added,      \* the notes ever added: a note gets an id of its own
    record,     \* the Zotero record in the item's filing
    kept,       \* whether a Keep offline collection holds the item
    item,       \* whether the Zotero library holds the work
    pdfs,       \* the annotations on each PDF of the Zotero item
    did,        \* how often each step made something in Zotero
    sending,    \* who holds the item's send lock
    lock,       \* who holds the key's lock
    pc, local,  \* where each request stands, and what it read
    late,       \* what was added since the last send read it (auxiliary)
    mailed,     \* what became of the Markdown there (auxiliary)
    clashed     \* whether file work of two requests met (auxiliary)

files == <<stored, marks, markdown, artifacts>>
filing == <<notes, added, record, kept, late>>
zotero == <<item, pdfs, did, mailed>>
locks == <<sending, lock>>
vars == <<files, filing, zotero, locks, pc, local, clashed>>

Marks == 0 .. MaxMarks
Live == {p \in Pdfs : pdfs[p] # None}

\* Where a request can be.
Points ==
    {"idle", "check", "require", "take", "ready", "import", "save", "step", "count", "attach",
     "replace", "standalone", "chain", "plugin", "place", "remove", "clear",
     "clearArtifacts", "artifacts", "markdown", "leave", "wait", "trash", "drop", "ended"}

\* Where file work is under way, and whether it outlives its handler: once begun,
\* the blocking pool ends it, though the locks went with the handler.
Placing == {"clear", "clearArtifacts", "artifacts", "markdown", "trash"}
Adrift(r) == pc[r] \in Placing /\ lock # r

\* What a request holds in its variables: whether it found Markdown, the
\* record, the steps pending, the PDF to replace, whether a chain of plugins
\* is still to run, whether it removes the item.
Locals == [found : BOOLEAN, record : Records \cup {None}, todo : SUBSET Steps,
           old : Pdfs \cup {None}, chain : BOOLEAN, leaving : BOOLEAN]
Fresh == [found |-> FALSE, record |-> None, todo |-> {}, old |-> None,
          chain |-> FALSE, leaving |-> FALSE]

Init ==
    /\ stored = TRUE /\ marks = 0 /\ markdown = None /\ artifacts = None
    /\ notes = {} /\ added = {} /\ record = None /\ kept = FALSE /\ late = {}
    /\ item \in BOOLEAN
    /\ pdfs \in [Pdfs -> Marks \cup {None}]
    /\ Cardinality(Live) <= IF item THEN 1 ELSE 0
    /\ did = [s \in Steps |-> 0]
    /\ sending = None /\ lock = None
    /\ pc = [r \in Requests |-> "idle"]
    /\ local = [r \in Requests |-> Fresh]
    /\ mailed = "no" /\ clashed = FALSE

-----------------------------------------------------------------------------
(* How a request moves on and ends, and what Zotero makes of a call.       *)

Go(r, to) == pc' = [pc EXCEPT ![r] = to]

\* The request is over, answered or failed, and its guards are dropped.
End(r) ==
    /\ Go(r, "ended")
    /\ local' = [local EXCEPT ![r] = Fresh]
    /\ sending' = IF sending = r THEN None ELSE sending
    /\ lock' = IF lock = r THEN None ELSE lock

\* Zotero refuses or is gone before the effect, or its answer is lost after it.
Asked(r, effect, answered) ==
    \/ End(r) /\ UNCHANGED zotero
    \/ effect /\ (End(r) \/ (answered /\ UNCHANGED locks))

\* R's variables become CHANGED as it goes to TO.
Holds(r, to, changed) == Go(r, to) /\ local' = [local EXCEPT ![r] = changed]

-----------------------------------------------------------------------------
(* What a send owes.                                                       *)

StepsOwed(method, found, noted) ==
    IF method = "standalone" THEN {"pdf"}
    ELSE {"fields", "pdf"} \cup (IF found THEN {"markdown"} ELSE {}) \cup noted

\* MUTANT: what the record names is sent again.
PendingAll(r, found, noted) == StepsOwed(r.method, found, noted)
PendingSteps(r, found, noted) == StepsOwed(r.method, found, noted) \ r.steps

\* The pending step that comes next: the notes after all others.
Due(todo, s) ==
    /\ s \in todo
    /\ s = "pdf" => "fields" \notin todo
    /\ s = "markdown" => {"fields", "pdf"} \cap todo = {}
    /\ s \in Notes => todo \subseteq Notes

-----------------------------------------------------------------------------
(* A request begins.                                                       *)

\* It takes the send lock and requires the item.
Begin(r) ==
    /\ r \in Serialized /\ pc[r] = "idle" /\ sending = None
    /\ IF stored
       THEN /\ Holds(r, IF r \in Deletes THEN "remove" ELSE "check",
                     [Fresh EXCEPT !.found = markdown # None, !.leaving = r \in Deletes,
                                    !.chain = r \in Extracts /\ markdown = None])
            /\ late' = late \ {"markdown"}
            /\ sending' = r /\ UNCHANGED lock
       ELSE End(r) /\ UNCHANGED late
    /\ UNCHANGED <<files, notes, added, record, kept, zotero, clashed>>

\* What it refuses (409): an item with nothing owed, a standalone PDF, and a
\* PDF alone that has a note or Markdown.
Refused(r) ==
    IF record = None
    THEN r \in PdfOnlys /\ (notes # {} \/ local[r].found)
    ELSE CASE r \in Sends -> PendingSteps(record, local[r].found, notes) = {}
           [] r \in Extracts -> record.method = "standalone"
           [] r \in PdfOnlys -> TRUE

\* It reads the filing and refuses or goes on.
Check(r) ==
    /\ pc[r] = "check"
    /\ IF Refused(r) THEN End(r) /\ UNCHANGED late
       ELSE /\ Go(r, IF r \in PdfOnlys THEN "ready" ELSE "require")
            /\ late' = late \ Notes
            /\ UNCHANGED <<local, locks>>
    /\ UNCHANGED <<files, notes, added, record, kept, zotero, clashed>>

\* The steps begin: it requires the item again and notes whether it is extracted.
Require(r) ==
    /\ pc[r] = "require"
    /\ IF stored
       THEN /\ Holds(r, "take", [local[r] EXCEPT !.found = markdown # None])
            /\ late' = late \ {"markdown"}
            /\ UNCHANGED locks
       ELSE End(r) /\ UNCHANGED late
    /\ UNCHANGED <<files, notes, added, record, kept, zotero, clashed>>

\* It reads the filing: its record and notes are what this send goes by.
Take(r) ==
    /\ pc[r] = "take"
    /\ LET known == IF record = None THEN [method |-> "item", steps |-> {}] ELSE record IN
       Holds(r, "ready", [local[r] EXCEPT
           !.record = record, !.todo = PendingSteps(known, local[r].found, notes)])
    /\ late' = late \ Notes
    /\ UNCHANGED <<files, notes, added, record, kept, zotero, locks, clashed>>

\* MUTANT: a record that names no item yet is saved without finding one.
ReadyUnimported(r) ==
    /\ pc[r] = "ready"
    /\ Go(r, IF r \in PdfOnlys THEN "standalone" ELSE "save")
    /\ UNCHANGED <<files, filing, zotero, local, locks, clashed>>

\* Zotero's health check passes, or the send fails with 503.
Ready(r) ==
    /\ pc[r] = "ready"
    /\ \/ End(r)
       \/ /\ Go(r, IF r \in PdfOnlys THEN "standalone"
                    ELSE IF local[r].record = None THEN "import" ELSE "save")
          /\ UNCHANGED <<local, locks>>
    /\ UNCHANGED <<files, filing, zotero, clashed>>

\* import_from_url: Zotero makes the item of the work, or answers its own.
Import(r) ==
    /\ pc[r] = "import"
    /\ Asked(r, item' = TRUE /\ UNCHANGED <<pdfs, did, mailed>>,
             Holds(r, "save", [local[r] EXCEPT !.record = [method |-> "item", steps |-> {}]]))
    /\ UNCHANGED <<files, filing, clashed>>

\* The record goes into the filing, or cannot be written and the send fails.
Save(r) ==
    /\ pc[r] = "save"
    /\ \/ record' = local[r].record /\ Go(r, "step") /\ UNCHANGED <<local, locks>>
       \/ End(r) /\ UNCHANGED record
    /\ UNCHANGED <<files, notes, added, kept, late, zotero, clashed>>

\* Nothing is pending: the first pass of a "Send to Zotero and Extract" of an
\* item without Markdown runs its plugins; any other send takes the item away.
Finished(r) ==
    /\ pc[r] = "step" /\ local[r].todo = {}
    /\ Go(r, IF local[r].chain THEN "chain" ELSE "leave")
    /\ UNCHANGED <<files, filing, zotero, locks, local, clashed>>

-----------------------------------------------------------------------------
(* The steps.                                                              *)

Made(s) ==
    /\ did' = [did EXCEPT ![s] = @ + 1]
    /\ mailed' = IF s = "markdown" THEN "yes" ELSE mailed

\* Step S of R is done and recorded next.
Done(r, s) ==
    Holds(r, "save", [local[r] EXCEPT !.record.steps = @ \cup {s}, !.todo = @ \ {s}, !.old = None])

\* MUTANT: the record is told of a step before Zotero is.
WriteRecordedFirst(r) ==
    \E s \in Steps \ {"pdf"} :
      /\ pc[r] = "step" /\ Due(local[r].todo, s)
      /\ s = "markdown" => markdown # None
      /\ record' = [local[r].record EXCEPT !.steps = @ \cup {s}]
      /\ Asked(r, Made(s) /\ UNCHANGED <<item, pdfs>>, Done(r, s))
      /\ UNCHANGED <<files, notes, added, kept, late, clashed>>

\* Fields, Markdown or a note: one call to Zotero.  The Markdown is read first.
Write(r) ==
    \E s \in Steps \ {"pdf"} :
      /\ pc[r] = "step" /\ Due(local[r].todo, s)
      /\ IF s = "markdown" /\ markdown = None THEN End(r) /\ UNCHANGED zotero
         ELSE Asked(r, Made(s) /\ UNCHANGED <<item, pdfs>>, Done(r, s))
      /\ UNCHANGED <<files, filing, clashed>>

\* MUTANT: the PDF to replace goes to the trash before the copy is attached.
LookAndTrash(r) ==
    /\ pc[r] = "step" /\ Due(local[r].todo, "pdf") /\ Live # {}
    /\ \E p \in Live : pdfs' = [pdfs EXCEPT ![p] = None]
    /\ Go(r, "attach") /\ UNCHANGED <<item, did, mailed, local, locks, files, filing, clashed>>

\* one_pdf asks for the item's PDFs: several are refused, none makes it attach.
Look(r) ==
    /\ pc[r] = "step" /\ Due(local[r].todo, "pdf")
    /\ \/ End(r)
       \/ /\ Live = {}
          /\ Holds(r, "attach", [local[r] EXCEPT !.old = None]) /\ UNCHANGED locks
       \/ \E p \in Live :
            /\ Live = {p}
            /\ Holds(r, "count", [local[r] EXCEPT !.old = p]) /\ UNCHANGED locks
    /\ UNCHANGED <<files, filing, zotero, clashed>>

\* It counts the annotations of both: Zotero's PDF stays if it has as many.
Count(r) ==
    LET theirs == pdfs[local[r].old] IN
    /\ pc[r] = "count"
    /\ \/ End(r)
       \/ /\ IF marks <= theirs THEN Done(r, "pdf") ELSE Go(r, "attach") /\ UNCHANGED local
          /\ UNCHANGED locks
    /\ UNCHANGED <<files, filing, zotero, clashed>>

\* It attaches the bucket's copy as it is now.
Attach(r) ==
    /\ pc[r] = "attach"
    /\ \/ End(r) /\ UNCHANGED zotero
       \/ \E p \in Pdfs \ Live :
            /\ Asked(r, pdfs' = [pdfs EXCEPT ![p] = marks] /\ Made("pdf") /\ UNCHANGED item,
                     IF local[r].old = None THEN Done(r, "pdf")
                     ELSE Go(r, "replace") /\ UNCHANGED local)
    /\ UNCHANGED <<files, filing, clashed>>

\* It moves the PDF its copy replaces to Zotero's trash.
Replace(r) ==
    /\ pc[r] = "replace"
    /\ Asked(r, pdfs' = [pdfs EXCEPT ![local[r].old] = None] /\ UNCHANGED <<item, did, mailed>>,
             Done(r, "pdf"))
    /\ UNCHANGED <<files, filing, clashed>>

\* "Send PDF Only": a standalone attachment, and the record that says so.
Standalone(r) ==
    /\ pc[r] = "standalone"
    /\ Asked(r, Made("pdf") /\ UNCHANGED <<item, pdfs>>,
             Holds(r, "save", [local[r] EXCEPT
                 !.record = [method |-> "standalone", steps |-> {"pdf"}]]))
    /\ UNCHANGED <<files, filing, clashed>>

-----------------------------------------------------------------------------
(* Extraction, by a request of its own or by the chain of a send.          *)

\* A request of its own requires the item before the plugin runs.
Run(r) ==
    /\ r \in Runs /\ pc[r] = "idle"
    /\ IF stored THEN Go(r, "plugin") /\ UNCHANGED <<local, locks>> ELSE End(r)
    /\ UNCHANGED <<files, filing, zotero, clashed>>

\* The chain begins with its first plugin.
Chain(r) ==
    /\ pc[r] = "chain"
    /\ Holds(r, "plugin", [local[r] EXCEPT !.chain = FALSE])
    /\ UNCHANGED <<files, filing, zotero, locks, clashed>>

\* The plugins fail, are rejected or run too long (a chain goes on to the
\* removal), break their contract, or one has written its output, for which
\* place_extraction requires the item before it waits for the key's lock.
Plugin(r) ==
    /\ pc[r] = "plugin"
    /\ \/ End(r)
       \/ r \in Extracts /\ Go(r, "leave") /\ UNCHANGED <<local, locks>>
       \/ stored /\ Go(r, "place") /\ UNCHANGED <<local, locks>>
    /\ UNCHANGED <<files, filing, zotero, clashed>>

\* Placing or removing: the key's lock.  What a cut-off request still moves
\* meets what R is about to move (history).
Lock(r) ==
    /\ lock = None /\ pc[r] \in {"place", "wait"}
    /\ lock' = r
    /\ Go(r, "clear")
    /\ clashed' = (clashed \/ \E q \in Requests : Adrift(q))
    /\ UNCHANGED <<files, filing, zotero, sending, local>>

\* trash_all was told what lay there when its request took the lock; where file
\* work met, what came since may not be among it.
Cleared(path) == IF clashed THEN {None, path} ELSE {None}

\* The previous Markdown goes to the trash, then the artifacts.
ClearMarkdown(r) ==
    /\ pc[r] = "clear"
    /\ \/ End(r) /\ UNCHANGED markdown
       \/ markdown' \in Cleared(markdown) /\ Go(r, "clearArtifacts") /\ UNCHANGED <<local, locks>>
    /\ UNCHANGED <<stored, marks, artifacts, filing, zotero, clashed>>

ClearArtifacts(r) ==
    /\ pc[r] = "clearArtifacts"
    /\ \/ End(r) /\ UNCHANGED artifacts
       \/ /\ artifacts' \in Cleared(artifacts)
          /\ IF Adrift(r) /\ ~local[r].leaving THEN End(r)
             ELSE /\ Go(r, IF local[r].leaving THEN "trash" ELSE "artifacts")
                  /\ UNCHANGED <<local, locks>>
    /\ UNCHANGED <<stored, marks, markdown, filing, zotero, clashed>>

\* MUTANT: the Markdown is moved before its artifacts.
MoveMarkdownFirst(r) ==
    /\ pc[r] = "artifacts"
    /\ markdown' = r /\ Go(r, "markdown")
    /\ UNCHANGED <<stored, marks, artifacts, filing, zotero, local, locks, clashed>>

MoveArtifacts(r) ==
    /\ pc[r] = "artifacts"
    /\ \/ End(r) /\ UNCHANGED artifacts
       \/ /\ artifacts' = IF r \in WithArtifacts THEN r ELSE artifacts
          /\ Go(r, "markdown") /\ UNCHANGED <<local, locks>>
    /\ UNCHANGED <<stored, marks, markdown, filing, zotero, clashed>>

\* A record names the Markdown: the filing's, or the one a send is about to save.
\* No send owes another then.
Named ==
    \E rec \in {record} \cup {local[r].record : r \in Requests} :
        rec # None /\ "markdown" \in rec.steps
Placed == IF Named THEN "again" ELSE "no"

\* MUTANT: the Markdown a send's chain made is not sent.
MoveMarkdownAndLeave(r) ==
    /\ pc[r] = "markdown"
    /\ markdown' = r /\ mailed' = Placed
    /\ IF r \in Runs THEN late' = late \cup {"markdown"} /\ End(r)
       ELSE /\ late' = late \ {"markdown"}
            /\ Go(r, "leave") /\ lock' = None /\ UNCHANGED <<sending, local>>
    /\ UNCHANGED <<stored, marks, artifacts, notes, added, record, kept, item, pdfs, did,
                   clashed>>

\* The Markdown comes last; a send goes on with its steps, a run is answered.
MoveMarkdown(r) ==
    /\ pc[r] = "markdown"
    /\ \/ End(r) /\ UNCHANGED <<markdown, late, mailed>>
       \/ /\ markdown' = r /\ mailed' = Placed
          /\ IF r \in Runs THEN late' = late \cup {"markdown"} /\ End(r)
             ELSE /\ late' = late \ {"markdown"}
                  /\ Go(r, "require") /\ lock' = None /\ UNCHANGED <<sending, local>>
    /\ UNCHANGED <<stored, marks, artifacts, notes, added, record, kept, item, pdfs, did,
                   clashed>>

-----------------------------------------------------------------------------
(* The item leaves.                                                        *)

\* A send is answered if a collection keeps the item offline, else removes it.
Leave(r) ==
    /\ pc[r] = "leave"
    /\ IF kept THEN End(r)
       ELSE Holds(r, "remove", [local[r] EXCEPT !.leaving = TRUE]) /\ UNCHANGED locks
    /\ UNCHANGED <<files, filing, zotero, clashed>>

\* The removal requires the PDF before it waits for the key's lock.
Remove(r) ==
    /\ pc[r] = "remove"
    /\ IF stored THEN Go(r, "wait") /\ UNCHANGED <<local, locks>> ELSE End(r)
    /\ UNCHANGED <<files, filing, zotero, clashed>>

\* The PDF goes last.
TrashPdf(r) ==
    /\ pc[r] = "trash"
    /\ \/ End(r) /\ UNCHANGED stored
       \/ /\ stored' = FALSE
          /\ IF Adrift(r) THEN End(r)
             ELSE Go(r, "drop") /\ lock' = None /\ UNCHANGED <<local, sending>>
    /\ UNCHANGED <<marks, markdown, artifacts, filing, zotero, clashed>>

\* Its filing is dropped.
DropFiling(r) ==
    /\ pc[r] = "drop"
    /\ \/ notes' = {} /\ record' = None /\ kept' = FALSE
       \/ UNCHANGED <<notes, record, kept>>
    /\ End(r)
    /\ UNCHANGED <<files, added, late, zotero, clashed>>

-----------------------------------------------------------------------------
(* The user, Zotero's user, and the end of the app.                        *)

AddNote ==
    /\ stored
    /\ \E n \in Notes \ added :
         notes' = notes \cup {n} /\ added' = added \cup {n} /\ late' = late \cup {n}
    /\ UNCHANGED <<files, record, kept, zotero, locks, pc, local, clashed>>

DeleteNote ==
    /\ stored
    /\ \E n \in notes : notes' = notes \ {n} /\ late' = late \ {n}
    /\ UNCHANGED <<files, added, record, kept, zotero, locks, pc, local, clashed>>

\* A reader's save adds an annotation.
Annotate ==
    /\ stored /\ marks < MaxMarks
    /\ Patient => sending = None
    /\ marks' = marks + 1
    /\ UNCHANGED <<stored, markdown, artifacts, filing, zotero, locks, pc, local, clashed>>

\* The item goes into or out of a Keep offline collection.
Keep ==
    /\ stored /\ kept' = ~kept
    /\ UNCHANGED <<files, notes, added, record, late, zotero, locks, pc, local, clashed>>

ZoteroAnnotate ==
    /\ \E p \in Live : pdfs[p] < MaxMarks /\ pdfs' = [pdfs EXCEPT ![p] = @ + 1]
    /\ UNCHANGED <<files, filing, item, did, mailed, locks, pc, local, clashed>>

\* Zotero's user keeps one of two PDFs, when no send is about to do so.
Tidy ==
    /\ Cardinality(Live) > 1 /\ \A r \in Requests : pc[r] # "replace"
    /\ \E p \in Live : pdfs' = [pdfs EXCEPT ![p] = None]
    /\ UNCHANGED <<files, filing, item, did, mailed, locks, pc, local, clashed>>

\* The client of R disconnects and its handler is dropped, with its locks.
Disconnect(r) ==
    /\ r \in CutOff
    /\ IF pc[r] \in Placing
       THEN /\ lock = r /\ lock' = None
            /\ sending' = IF sending = r THEN None ELSE sending
            /\ UNCHANGED <<pc, local>>
       ELSE pc[r] \notin {"idle", "ended"} /\ End(r)
    /\ UNCHANGED <<files, filing, zotero, clashed>>

\* Every request ends where it stands.
Crash ==
    /\ pc' = [r \in Requests |-> IF pc[r] = "idle" THEN "idle" ELSE "ended"]
    /\ local' = [r \in Requests |-> Fresh]
    /\ sending' = None /\ lock' = None
    /\ UNCHANGED <<files, filing, zotero, clashed>>

Moves(r) ==
    \/ Check(r) \/ Require(r) \/ Take(r) \/ Ready(r) \/ Import(r) \/ Save(r) \/ Finished(r)
    \/ Write(r) \/ Look(r) \/ Count(r) \/ Attach(r) \/ Replace(r) \/ Standalone(r)
    \/ Run(r) \/ Chain(r) \/ Plugin(r)
    \/ ClearMarkdown(r) \/ ClearArtifacts(r) \/ MoveArtifacts(r) \/ MoveMarkdown(r)
    \/ Leave(r) \/ Remove(r) \/ TrashPdf(r) \/ DropFiling(r) \/ Disconnect(r)

Next ==
    \/ \E r \in Requests : Begin(r) \/ Lock(r) \/ Moves(r)
    \/ AddNote \/ DeleteNote \/ Annotate \/ Keep \/ ZoteroAnnotate \/ Tidy \/ Crash

Spec == Init /\ [][Next]_vars

-----------------------------------------------------------------------------
(* What holds.                                                             *)

TypeOK ==
    /\ stored \in BOOLEAN /\ marks \in Marks /\ kept \in BOOLEAN /\ item \in BOOLEAN
    /\ markdown \in Extracts \cup Runs \cup {None}
    /\ artifacts \in WithArtifacts \cup {None}
    /\ notes \subseteq added /\ added \subseteq Notes /\ late \subseteq Notes \cup {"markdown"}
    /\ record \in Records \cup {None}
    /\ pdfs \in [Pdfs -> Marks \cup {None}]
    /\ did \in [Steps -> Nat] /\ mailed \in {"no", "yes", "again"} /\ clashed \in BOOLEAN
    /\ sending \in Serialized \cup {None} /\ lock \in Requests \cup {None}
    /\ pc \in [Requests -> Points]
    /\ local \in [Requests -> Locals]
    /\ \A r \in Requests : local[r].record = None => pc[r] \notin {"save", "step"}

\* What the filing records as sent, Zotero holds: over failed writes, lost
\* answers, crashes and any number of sends (send_steps saves after a step).
RecordTrue ==
    record # None =>
        \A s \in record.steps :
            IF s = "pdf" /\ record.method = "item" THEN Live # {} ELSE did[s] > 0

\* Zotero is asked for a step only while the filing does not record it: no
\* note, Markdown or PDF is made twice unless its record was lost, however
\* many sends of the item were asked for at once (AppState::sends).
NeverTwice ==
    [][\A s \in Steps : did'[s] > did[s] => record = None \/ s \notin record.steps]_vars

\* A send takes the item away only with every note sent that was there when it
\* last read the filing, in whichever of the item's sends, and with the Markdown
\* sent that lies there, unless that came since the last reading, or came again
\* after a record had named one: such a Markdown is owed to nobody (done_by).
LeavesSent ==
    [][\A r \in Senders :
          pc[r] = "leave" /\ pc'[r] = "remove" =>
              /\ record # None /\ (record.method = "item" => did["fields"] > 0 /\ Live # {})
              /\ \A n \in notes \ late : did[n] > 0
              /\ markdown # None /\ "markdown" \notin late => mailed # "no"]_vars

\* One send asks several things of Zotero, any of which may fail: an item
\* of Zotero that holds a PDF never stands without one (one_pdf).
PdfAlways == [][Live # {} => Live' # {}]_vars

\* A Markdown in the root is complete: what else its plugin wrote lies beside
\* it, and nothing of another plugin, at every moment of a placing, a removal,
\* a failure, a crash or a disconnect (place_extraction moves it last, trash_all
\* first), until another request takes the key's lock while the file work of a
\* cut-off one still runs.
MarkdownComplete ==
    ~clashed /\ markdown # None => artifacts = IF markdown \in WithArtifacts THEN markdown ELSE None

=============================================================================
