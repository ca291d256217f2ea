# PDF Bucket in TLA+

TLA+ models of PDF Bucket, the TLC configurations that check them and the
proofs of what holds for every size of the instance. Paths below are relative
to the repository; `server/` is the Rust server, `src/web/` the React library
and reader, `src/extension/` the browser extension, `desktop/` the Tauri shell.

- [The system](#the-system) · [The modules](#the-modules) · [Bucket](#bucket) ·
  [SavePdf](#savepdf) · [Send](#send) · [Extension](#extension) ·
  [Documents](#documents) · [The reader's input](#the-readers-input) ·
  [Library](#library) · [Forms and Views](#forms-and-views) · [Runs](#runs) ·
  [Fairness](#fairness) · [Proofs](#proofs) ·
  [Where code and documents part](#where-code-and-documents-part) ·
  [Not modelled](#not-modelled)

## The system

One process, the desktop app, serves everything: its windows and the browser
extensions talk to it over HTTP. The `pdf-bucket` commands (`export-index`,
`import-index`, `rebuild-cache`, `forget`) work on the same files beside it.

| Component | State it keeps | Operations | What makes it correct |
| --- | --- | --- | --- |
| **Store** (`store.rs`, `layout.rs`, `index.rs`) | the PDFs and what is derived from each; in memory: per-key locks, the placing mutex, `metadata_writes`, a hash cache | capture, restore, remove, replace, record_metadata, place_extraction, thumbnail | no PDF overwritten; the same bytes stored once; a save from other bytes refused |
| **Filing store** (`organization.rs`) | `organization.json`, `removed.json`, the filing lock (a mutex and flock) | update, update_items, claim, record/withdraw a removal, forget, prune, import | a freed key inherits nothing; a removal is remembered until the export dropped the item |
| **Index export** (`export.rs`) | `index.json`, a status, a `Notify` permit | export, prune, missing, import | drops nothing that was merely lost; catches up with every change |
| **Routes and state** (`state.rs`, `app.rs`, `library.rs`) | nothing of their own | capture, filing routes, `remove`, `held_keys` | the order of their calls |
| **Sending** (`send.rs`) | send records, a lock per key | steps towards Zotero, then the removal | each Zotero step once; nothing leaves the bucket unsent |
| **Sources and rebuild** (`sources.rs`, `source_routes.rs`, `main.rs`) | recorded sources | rebuild lost items, in the app or by command | a lost PDF returns under its key and nowhere else |
| **Extraction** (`extractions.rs`, `extensions.rs`) | jobs, one process each | run, place, cancel | output beside the PDF it was made from |
| **Sessions, events** (`sessions.rs`, `events.rs`, `reader.rs`) | `reading-sessions.json`, a broadcast channel | upsert, publish, subscribe | no reading time lost or counted twice |
| **Reader storage** (`documentStorage.ts`) | document, entity tag, pending and counted saves, conflict, failure | edit, save, keepMine, discard, reload, settle | no edit lost while the reader says it is saved |
| **Reader tabs** (`documents.ts`, `readerHost.ts`, `readerTabs.ts`, `tabs.tsx`) | the PDFs held, asleep, focused; EmbedPDF's documents | open, show, close, discard, reload, sleep, wake | tab row and viewer agree; only settled PDFs go |
| **Reading session, positions** (`readingSession.ts`, `documentStorage.ts`) | stretches of reading, the places jumped from | input, hide, report; jump, back, forward | no time counted twice; Back and Forward as in a browser |
| **Reader input** (`pointerInput.ts`) | the stroke or erasure that goes on, what is paused | pen, eraser, secondary press, Delete, blur | the borrowed tool is given back; only what was crossed is erased |
| **Library interface** (`useLibraryApi.ts`, `libraryActions.ts`, `smartRules.ts`, ...) | what it last read, a queue of requests, forms being typed | changes and reads; selections; dialogs, columns, keys | never shows an older library than it had; keeps what was typed |
| **Extension** (`downloads.ts`, `capture.ts`, `interception.ts`, ...) | marks and claims in session storage | mark, claim, deliver, resume, recover | a claimed download is stored once, or reported |
| **Desktop shell** (`desktop/src-tauri`) | the window | start, hide, quit | quitting loses nothing on disk |
| **Zotero, Python commands** | external | HTTP calls, subprocesses | modelled by their outcomes |

How they meet:

- A *capture* (`app.rs` `store`) reads the held keys under the filing lock,
  embeds provenance in a subprocess, looks for the same bytes, takes the placing
  mutex, looks again, renames the PDF into place, reads it back, lets the mutex
  go, *claims* the key in the filing store and wakes the exporter.
- A *delete*, and the end of a *send*, records the key in `removed.json`, trashes
  the PDF under its key lock, and drops its filing (`AppState::remove`).
- The *exporter* sleeps on a `Notify`, takes one view of store, filing and
  `removed.json` under the filing lock, compares it with the previous export,
  refuses if an item went missing unexplained, writes, and prunes what it
  dropped from `removed.json` and the filing.
- *Rebuild* and *forget* act on items the export lists and the store lost.
- The *extension* marks PDF responses, claims the browser's downloads of them and
  hands each to the bucket as a capture, over stops of its worker.
- A *library window* asks for changes, is answered with the whole library, and reads
  it again when a call ends, when it is focused and when the event stream tells of a
  new export. It opens items in *reader tabs* and closes them before a send.
- A *reader* holds the bytes it loaded with their SHA-256 as entity tag, saves
  after a pause with `If-Match`, and gets 412 for bytes that changed since,
  unless only metadata was written (`only_metadata_since`): then the save is
  placed with the stored metadata written into it again.

What is hard about it: handlers interleave at every await; an axum handler is
dropped where it stands when its client disconnects, but file work handed to
`spawn_blocking` runs on; the app may end anywhere; commands share the filing
lock with the app but not its placing mutex and key locks; PDFs go missing by
themselves; answers of the server are late, lost or come after the reader moved
on. `PROJECT.json` lists these hazards with their lines and the properties that
cover them.

## The modules

| Module | Models | Extends, instantiates |
| --- | --- | --- |
| `Bucket` | the store, the filing of keys, removals, the export, rebuilds | |
| `SavePdf` | saving one PDF from several windows | |
| `Send` | sending, deleting and extracting one item | |
| `Extension` | capture in Chrome and Firefox | |
| `Interception` | which answers are captured, as Chrome's rules and as Firefox's predicate | |
| `Documents` | the tabs of the reader | |
| `PointerInput`, `ReadingSession` | pen, eraser and secondary press; the time read | |
| `JumpHistory` | the positions jumped between | implements `BrowserHistory` |
| `BrowserHistory` | abstract: the two stacks of a browser | |
| `Filing` | the filing document, its changes, what is selected from it | |
| `Library` | the windows over one bucket | extends `Filing` |
| `Forms`, `Views` | what one window holds of its user; the Timeline, columns, keys | |

Each `MC...` module instantiates one of them, or several that share no state
(`MCInput`, `MCLibrary`: a variable `part` says of which a behaviour is, so that one
run checks them side by side without multiplying their states). Each `...Proofs`
module holds the theorems of one, but for `InputProofs` (`PointerInput`,
`ReadingSession` and `JumpHistory`), `ExtensionProofs` (`Extension` and `Interception`),
`LibraryProofs` (`Filing` and `Library`) and `WindowProofs` (`Forms` and `Views`).
`PROJECT.json` maps every definition to its lines.

How they compose: a capture of `Extension` is one of `Bucket`; the storages of
`SavePdf` are what `Documents` opens and settles (a settle of `Documents` is
`SavePdf.Settled`); `Forms` sends what `Send` does; the filing that `Bucket` claims,
forgets and prunes by key is what `Library` and `Filing` change by its contents. Each
module leaves to the other what that one models, so that each stays checkable.

What is left of the plan, in order: the slow writers that work by key (retrieved
titles, thumbnails) over a key captured again; filing writes that outlive their handler;
an abstract ledger of the bucket that `Bucket` implements.

## Bucket

`Bucket.tla` is the store, the filing, `removed.json` and the export as seen by
every process that changes them. An *item* is named by the upload that made it,
so that two PDFs stored under one key in turn are told apart; `Original` gives
its bytes and `Candidate` the keys its file name gives (`candidate_keys`).

| State | In the code |
| --- | --- |
| `pdf` | which PDF lies at a key's path in the data root |
| `filing` | whose data a key's entry of `organization.json` holds |
| `removed` | `removed.json` |
| `export` | `index.json`, reduced to which item a key lists |
| `filingLock`, `placing`, `sends` | `FilingLock`, `Inner::placing`, the send lock of a key |
| `changed` | the permit of the `Notify` the exporter waits for |
| `pc`, `at`, `held`, `item`, `seen` | where each handler stands and its local variables |
| `left` | history: the items removed on purpose |
| `losses`, `crashes` | how often the environment acted |

Every action is the code between two awaits of a handler. A step that takes a
lock also does the first read under it; a read-modify-write of one document
under the filing lock is one step, as every writer holds that lock. Writes of
*two* documents under one lock (`claim`, `forget`, `prune`) stay two steps: a
process can end between them.

- capture: `ReadHeld`, `FirstLook`, `Place`, `Commit`, `Verify`, `Claim`, `Unfile`, `Stored`
- delete and end of a send: `Begin`, `Record`, `Trash`, `TrashFails`, `Withdraw`, `Drop`
- forget: `Listed`, `Forget`, `ForgetUnfile`; rebuild: `FindLost`, `CheckRemoved`, `FetchFails`,
  `LookToRestore` and `Restore` (the look and the rename, which the blocking pool runs), `Restored`
- a filing route: `FileItem`
- exporters: `Wake`, `Snapshot`, `CheckPrevious`, `Write`, `Prune`, `PruneFiling`
- environment: `Lose`, `Crash`, `Cancel`, and the work a cut-off handler leaves
  in the blocking pool, `OrphanCommit`, `OrphanTrash` and `OrphanRestore`

`Patient` says that clients act on an item only when its capture was answered;
every run sets it. `Cancellable` are the requests a client may cut off and `Cli`
those run as commands.

Properties: `OneCopy`, `FreshCapture`, `NeverOverwritten` (store),
`RemovedStoredInFlight`, `FilingOwned` (filing against removals),
`ExportKeepsLost`, `DeliberateNeverMissing` (export against the history
`left`), `RequestsEnd`, `ExportSettles` (liveness). `NothingInherited` and
`FilingKept` are stated too; they fail, and no run checks them
(see [below](#where-code-and-documents-part)).

## SavePdf

`SavePdf.tla` is one stored PDF, the readers of it in several windows, and the
server's `replace` and `record_metadata`. Bytes are reduced to the annotation
edits in them and the metadata recorded in them; a SHA-256 *is* the bytes it
hashes, so an entity tag, an `If-Match` and a base in `metadata_writes` are
bytes. Removing an annotation is an edit like any other.

| State | In the code |
| --- | --- |
| `stored` | the stored PDF |
| `writes` | `metadata_writes` of the key: the bytes now stored and those that differ from it by metadata alone |
| `lock` | the key's lock |
| `awaiting` | metadata writes not made yet |
| `reader[w]` | a `DocumentStorage`: document, tag, the running pause (`pending`), counted saves (`saving`), `conflict`, `failure`, `settling`, and whether the tab is open |
| `call[w][c]` | a PUT on its way: the one of the save queue (`"save"`), or one of *Save my copy over it* |
| `given` | auxiliary: the edits a user gave up |

- reader: `Edit`, `StartSave`, `Save`, `Put`, `HearSave`, `KeepMine`, `HearKeep`,
  `Ignore`, `Discard`, `Load`, `Close`, `Settled`
- server: `Admit` (take the lock, compare, refuse or admit), `Commit`, `Fail`,
  `RecordBegins`, `RecordEnds`, `Restart`

The export of the document and the reading of the tag are two steps, as in
`saveCopy` and `put`: an answer may come in between. `Load` reads the stored
bytes and their tag in one step. `Restart` empties `metadata_writes`, frees the
lock, turns a request that has no answer into a failed one, and may lose the
answer of a save that landed.

Properties: `NoSilentOverwrite` and `MetadataNeverUndone` (what a step may do
to the stored PDF), `NothingLostQuietly` (every edit is stored, given up, or in
a window that still says *unsaved*), `SettleEnds` (liveness).

## Send

`Send.tla` is one item of the bucket and every request that takes it away or
extracts it: `send_item`, `send_and_extract_item`, `send_pdf_only_item`, the
delete, and `extract_with`. A PDF is its number of annotations, since `one_pdf`
compares nothing else; a Markdown or an artifacts directory is the request whose
plugin wrote it; a note is its id.

| State | In the code |
| --- | --- |
| `stored`, `marks` | `<key>.pdf` and the annotations in it |
| `markdown`, `artifacts` | `<key>.md` and `<key>.extraction/` |
| `notes`, `record`, `kept` | the item's filing: its notes, its `ZoteroRecord`, whether a Keep offline collection holds it |
| `item`, `pdfs` | the Zotero item and the PDF attachments it holds |
| `did` | history: how often Zotero made the result of a step |
| `sending`, `lock` | the item's lock in `AppState::sends`, the key's lock in the store |
| `pc`, `local` | where each handler stands and its local variables |
| `late` | auxiliary: the notes and Markdown no send has read |
| `mailed` | auxiliary: whether the Markdown was sent, or came again after a record had named one |
| `clashed` | auxiliary: whether a request took the key's lock while file work of a cut-off one still ran |

- a send: `Begin`, `Check`, `Require`, `Take`, `Ready`, `Import`, `Save`, then for
  each step `Write`, or `Look`, `Count`, `Attach`, `Replace` (`one_pdf`), each followed by
  `Save`; `Finished`, `Leave`; of a PDF alone `Standalone`
- an extraction: `Run` or `Chain`, `Plugin`, `Lock`, `ClearMarkdown`,
  `ClearArtifacts`, `MoveArtifacts`, `MoveMarkdown`
- a removal: `Remove`, `Lock`, `ClearMarkdown`, `ClearArtifacts`, `TrashPdf`, `DropFiling`
- the users: `AddNote`, `DeleteNote`, `Annotate`, `Keep`; in Zotero
  `ZoteroAnnotate`, `Tidy`; a client that goes, `Disconnect`; `Crash`

Each call of Zotero is `Asked`: refused or never heard, done with its answer lost, or
done and answered. `Crash` ends every request where it stands. Sends run as tasks
of their own, so no client cuts one off. An extraction and a delete run in their handler
(`extractions.rs:268`, `send.rs:511`): `Disconnect` drops it with its locks, while what the
blocking pool has begun, the trash or the renames, runs on without them (`Adrift`). A
request that then takes the key's lock sets `clashed`; from there on the trash may miss
what came after its list was made (`Cleared`). The removal record and the capture of a
freed key are in `Bucket`. The user of Zotero
tidies up two PDFs of an item only while no send is about to do it.

Properties: `RecordTrue` (the record against Zotero), `NeverTwice` (Zotero against
the record), `LeavesSent` (what a send takes away was sent, but for what came since it
last read, and for a Markdown that was extracted again after a record had named one),
`PdfAlways` (`one_pdf`), `MarkdownComplete` (the order of the renames, until file work
clashes). There is no liveness property:
whether a send ends is up to Zotero.

## Extension

`Extension.tla` is the capture extension in one browser, Chrome or Firefox. A
*response* is a PDF the browser receives for a page, a frame, a small frame or a link;
its download has its name.

| State | In the code |
| --- | --- |
| `marks`, `claims` | the marked responses and the claims of downloads in session storage (`downloads.ts`) |
| `exempt`, `held` | PDFs handed back to the browser (`exemptions.ts`); Firefox's responses kept for the capture page |
| `queue`, `runs` | work waiting for the mutex of `downloads.ts`; deliveries under way |
| `up`, `events` | whether the background runs; events that wait for it |
| `item`, `open` | what the browser made of each response; its tabs |
| `enabled`, `capturing` | the switch as stored, and as the background and its rules know it |
| `stale`, `reloaded` | another build is provisioned; this build reloaded for it |
| `stored`, `told`, `posts` | what the bucket holds; how each response was seen to end, and whether its frame was handed back or cut off before; deliveries (auxiliary) |

- browser: `Respond`, `Complete`, `Interrupt`, `Resumed`, `CloseTab`, `StopIdle`, `Kill`
- background: `Exclusive` (one operation under the mutex: mark, claim, begin, release,
  resume), `Deliver` with its steps `Search`, `Check`, `Post`, `RemoveFile`, `Erase`,
  `Hand`, `Show` and `Report`, `Start`, `Reload`
- user: `Ask`, `OpenNatively`, `SetEnabled` and the `Switch` that hears of it; `Provision`

`Kill` stops a busy worker between any two awaits; what is in session storage
survives it, the deliveries under way do not.

Properties: `ClaimsSound` (its parts: `OneDelivery`, a claim is delivered by one run at a
time; `HandedOnRarely`, no PDF goes to the bucket more often than its deliveries are
counted; `ReloadsEnd`, a build reloads once for each that was provisioned),
`DiscardedIsHeld` (a download the extension threw away is one whose PDF the bucket holds, or
whose frame was too small and was handed back to the browser, is being, or was cut off: the
file goes before its frame is exempted, and a worker stopped in between hands nothing back)
and the liveness property `ClaimsEnd`, for claims that came to no frame
(see [below](#where-code-and-documents-part)).

`Interception.tla` is which answers to a navigation are PDFs to capture. The code says
it twice: as declarative rules Chrome evaluates by priority, with pdf.js's double negation
for "generic or absent", and as one predicate over parsed headers, used by Firefox and to
mark Chrome's downloads. `BrowsersAgree` compares them over every answer the model can
tell apart: method, type of request, where the PDF is, how `Content-Type` is written and what
`Content-Disposition` ends in. They agree but for values no parser accepts
(`application/pdf x;y`), which Chrome's rules download and nothing marks; the comment in
`interception.ts` says that no server sends one.

## Documents

`Documents.tla` is the reader's tabs, with EmbedPDF's document manager as the code
uses it. `host` is the record the callbacks of the reader share (`readerHost.ts`):
what it holds and in which state, which PDFs sleep behind which bookmark, the focus, the
PDFs shown last, and the loads, closes and sleeps under way; beside them EmbedPDF's
order, active document, layouts and pages. `dialog` is the tab that asks whether to close
without saving.

- tabs: `OpenReader`, `ShowTab`, `Close`, `Sleep`, `Discard`, `Reload`, `CancelDialog`
- what was awaited: `Loaded` (the bytes are there: the tab holds them open and EmbedPDF
  takes them in), `Placed` (its document moves to its place), `Opened` (its task ends),
  `LoadFailed` (at any of these), `LaidOut`, `Settled`, `NotSettled`
- the PDF: `Scroll`, `Edit`, `Saved`, `KeepMine`

A handler runs from one await to the next as one step; what waits carries whether the
storage it found is still the one held (`current`).

Properties: `TabsSound` (its parts: `FocusIsAwake`; `ManagerHoldsOpen`, EmbedPDF holds
what the reader holds open and besides only PDFs whose tab says that they failed, for
a load that fails leaves its document in EmbedPDF; `AwakeBound`, no more PDFs shown
before stay open than `AWAKE_READERS` but for those that could not settle), `FocusKeptShown`,
`SettledBeforeClosed` (no unsaved edit goes with a tab unless its user said so) and
`SleepsWhereItWas`.

The run keeps three switches off, each for a behaviour told
[below](#where-code-and-documents-part): `SlowCloses`, `LateFailures` and `StrayDocuments`.

Abstracted: EmbedPDF lays a PDF out only once its task has ended; only the active PDF is
laid out; the page of a PDF last viewed is the first; titles.

## The reader's input

`PointerInput.tla` is the pen, the eraser, the secondary press and the Delete key over
two PDFs, with EmbedPDF's toolbars and tools. `viewer`, `pen` and `press` are what
`pointerInput.ts` reads and keeps; `chosen` is what the user asked for. `Crosses` is
the Liang-Barsky clipping of `pointerInput.ts` in exact fractions, checked against
`Touched`, which walks the way point by point: `EraserExact`. That both agree is
[proved](#proofs) for any boxes and points. Only pages EmbedPDF has drawn can be erased
on: between two layouts `shownPages` is null, a movement deletes nothing and the eraser's
place moves on (`pointerInput.ts:297-300`, `344-345`), so `EraserExact` speaks of the pages
drawn (`PagesDrawn`) at each movement, and what was passed before stays.
`PointerSettles` is that a stroke or an erasure goes on only in the PDF and the mode it
began in (`StaysWhereItBegan`), that a stroke gives its tool back (`ToolRestored`), that
what a press paused resumes (`ResumesOnRelease`) and that the desktop is told each change
of the stylus mode (`DesktopKnowsMode`). `ToolRestored` has an exception, which the code
makes: a stroke still under way when another PDF is shown ends in that one, whose tool
`restoreTool` then restores (`pointerInput.ts:396-406`). The first PDF keeps the
highlighter and the second may get the first's tool, although `docs/m2.md:138` has the
stroke restore "the previous tool on release". `chosen.left` holds the two until their
user takes up a tool there; every other PDF must have the tool its user chose.

`ReadingSession.tla` is one reading session and the bucket's copy of it: inputs, page
changes, hiding, the timer and reports that arrive in any order, against `truth`, the
time each page was on the screen of a user who was not idle. Properties: `TimeExact` (no
page has more than its time, `NeverOvercounted`; a run without a break is counted whole,
`CountsTheRun`) and `ReportsGrow`.

`JumpHistory.tla` is the array of positions and the index into it that
`documentStorage.ts` keeps. The place a jump leads to is not in the array until a step
leaves it, which makes it hard to see that Back and Forward are right. `BrowserHistory.tla`
says what right means: a place, the places behind it, the places ahead; go, wander, back,
forward. `WalksAsBrowser` is the refinement, with `behind` the positions before the index
and `ahead` those after it.

## Library

`Filing.tla` is the filing document without the keys' life in `Bucket`: the tree of
collections, tags, filed items and saved searches; the changes of `organization.rs`
(`repaired`, the subtree that is deleted, what is refused as unknown) and the
selections of the window (`ItemsInView`, `ItemsMatching`, the facets and rules of
`smartRules.ts` and `contract/library.ts`).

`Library.tla` is two or more windows over one such document. `win[w]` is
`useLibraryApi`: the library shown (`lib`, read at version `at`), the read that waits, the
queue of requests answered with the library, and those under way; `calls` are the requests
outside the queue. `due`, `news` and `hearing` are the export that follows a write and the
event stream that tells of it. A user asks from what the window shows (`Ask`); `Serve`
changes the bucket, `Answer` brings what it answered, `Lose` loses either; `Drop` and
`Connect` are the event stream.

Properties: `NeverBack`; `StaleIsTold` (a window that shows an old library says so or
will hear); `FilingSound` (no write undoes another's, `LastWordStands`; nothing refers to
what was deleted, `NothingDangles`; a subtree is what descends from its root,
`SubtreeIsDescent`); `SelectionsExact` (a repaired search selects what it did before,
`SearchesKeepMeaning`; a view and the saved search for it select the same, `SmartAsView`).

A request whose answer was lost is not applied later; the payload's items are listed
after the filing was read.

## Forms and Views

`Forms.tla` is one window's text and marks while requests are under way: `dialog`,
`panel` (the inspector of an item: metadata editor, new mirror, note), `drafts`,
`marks` (sending, verifying, rebuilding, extracting, and how the last one ended),
`plugins` (read once, before any extraction), `reader` (which items are open, and
unsaved) and `guess` (*Guess metadata* over several items). Every request ends accepted
or refused at any time (`Accepted`, `Refused`). Properties: `UnsavedKept` (what was typed
stays until it is stored, `TypedKept`; a send goes out with its reader settled,
`GoesOutSettled`) and `RequestsAccount` (every mark ends with its request and an item
shows one extraction, `MarksEnd`; a guess run names every item, `GuessAccounts`).

`Views.tla` holds three parts with what is stored of them: the Timeline
(`TimelineEntries`, `PageRanges`, against the reference definitions of `EntriesAreRuns` and
`RangesExact` over sets of up to three sessions), the table's columns (`ColumnsKept`) and
the shortcuts (`OneActionEach`: a press does one bound action at most, and opens or deletes
besides only where a combination with Enter or Delete is bound). `ViewsExact` is all four. A dragged column is taken out by
its place (`Without`), which is the code's filter because each column is there once.

## Runs

| Run | Instance | States | Shows |
| --- | --- | --- | --- |
| `captures` | 3 uploads (two of the same PDF, all fitting one key), 1 delete, 1 note, the exporter, 2 keys | 364,000 | one copy, removal records only in flight, filing never inherited once its removal is done, no deleted item reported missing |
| `losses` | 2 items, 1 delete, 1 `forget` by command, 2 losses, a cut-off capture | 109,000 | the export drops only what was removed on purpose |
| `rebuilds` | the same PDF under two names, a rebuild in the app, `export-index`, 1 loss; the delete and the rebuild may be cut off | 1,440,000 | a capture never stores bytes twice, but for a late rebuild; no PDF is overwritten |
| `settles` | 2 uploads of one PDF, 1 delete, 1 note, a crash; fair | 22,000 | every request ends; the export comes to agree with the store |
| `saves` | 2 windows, 2 edits, 1 metadata write, 1 keepMine each, 1 restart; fair | 74,000 | the five properties of `SavePdf` |
| `sends` | a send, a send with extraction, a PDF sent alone, a plugin run that may be cut off; 1 note, 1 annotation, 2 attachments | 1,920,000 | the properties of `Send` |
| `downloads` | 2 responses of one URL (a frame or a small frame, and a link) in one tab, in Chrome and in Firefox; 1 delivery counted, 1 kill, 1 retry, 2 disturbances, 1 switch, 1 new build; fair | 500,000 | the properties of `Extension` and `Interception` |
| `tabs` | 3 PDFs, 1 kept awake, 2 pages, 2 things under way or failed tabs (1 load in EmbedPDF's hands), 1 PDF edited or scrolled | 346,000 | the properties of `Documents` |
| `input` | 2 PDFs with 3 annotations on a small grid; 2 pages read up to time 6; 3 pages with 2 corners, 3 positions kept | 573,000 | the properties of `PointerInput` and `ReadingSession`; `JumpHistory` implements `BrowserHistory` |
| `library` | 2 windows and 2 items, five mixes of 2 changes (1, with a lost answer or stream, in the last); dialogs, inspector and marks with 3 to 6 acts; columns and keys; up to 3 sessions | 511,000 | the properties of `Library`, `Filing`, `Forms` and `Views` |
| `kept_edit`, `slow_close` | the smallest that show it | | each finds one property violated, [below](#where-code-and-documents-part) |

Why these sizes are enough. In `Bucket` a hazard needs a key that is used
again: one item leaves it and another takes it. That takes two captures and one
removal on one key; the third upload of `captures` adds the second copy of the
same bytes, and the second key a place for it. Two losses let one item be
explained (deleted) and one not, which is what the export must tell apart; two
exporters are all that can overtake each other. In `SavePdf` an overwrite needs
two windows and one edit in each; a chain of rebased saves needs one metadata
write and two edits. With three edits the `saves` model has 4.1 million
states and no violation; the run keeps two so that liveness is checked
within a minute. In `Send` the hazards are a send that stops half way and
another that goes on, and a placing that meets a second one: one request of each
kind, and failures and crashes without a bound. Two attachments are what `one_pdf`
tells apart (none, one, several), one annotation which of two PDFs has more. The run
leaves deletes out: with one beside them TLC had found no violation in 4.8 million states
when it was stopped after five minutes. What is proved of `Send` includes them.

In `Extension` a hazard is two downloads of one URL whose marks and claims cross, or one
claim that two workers deliver: two responses and one kill reach both, one retry lets a
download end twice. In `Documents` a tab that goes needs a neighbour, and one more to
be slept: three PDFs with one awake; two things under way are a load or a close that
another overtakes, and a failed tab counts as one (uncounted, the model has 822,000
states, and no violation). In `PointerInput` a stroke needs a second PDF to be carried to, in
`ReadingSession` a page to turn to and time enough to idle; a jump history that drops
its oldest place needs one place more than it keeps. In `Library` a stale window needs
another that changed something, hence two changes, of each pair of kinds that touch the
same state; a collection with one below it, and a saved search over that one, are what
a deletion must repair. Sessions of a Timeline meet in threes.

Each bound is a constant (`MaxLosses`, `MaxCrashes`, `MaxRestarts`, `MaxMarks`,
`MaxUnderWay`, `MaxOpening`, `MaxTouched`, `MaxKills`, `MaxRetries`, `MaxDisturbances`, `MaxSwitches`,
`MaxUpdates`, `MaxTime`, `MaxPosts`, `MaxKept`, `Cap`, `MaxAsks`, `MaxFaults`, `MaxFocus`,
`MaxActs`, `MaxDialogs`, and the sets of requests, edits and metadata writes), or one of
the mixes of `MCLibrary`, and stands in a guard. No run checks deadlock: requests are
served once, users may stop at any time.

What the runs assume, beyond their bounds:

- `captures`, `rebuilds`: no capture is cut off. One that is lets its commit
  run on without the placing mutex, and `OneCopy` then fails. A rebuild in the app may be
  cut off: `FreshCapture` excepts the items (`Strays`) its rename brings back after a
  capture's second look.
- `captures`: one delete. With two of one key, the prune of an older export
  takes back the record the later one made, and `DeliberateNeverMissing` fails.
- `losses`: no crash, one exporter, no rebuild, and each upload has names of its own: a
  capture that read its held keys before another item came and went under its name
  takes the key over, and the export then drops the other; see
  [below](#where-code-and-documents-part).
- `saves`: `Careful`: the user draws nothing while keepMine is under way, and a
  window has one keepMine under way at a time.
- `sends`: once file work has clashed, `MarkdownComplete` asks nothing; see
  [below](#where-code-and-documents-part).
- `tabs`: a close is not outlasted by its opening (`SlowCloses`; `slow_close` is the run
  with it), a load fails only while it is waited for (`LateFailures`), and no tab goes
  while EmbedPDF keeps the PDF it could not open (`StrayDocuments`).
- `library`: a text is not typed in while it is being stored (`TypesWhileSaving`).
- `downloads`: the deliveries are counted up to 1 where the code has `MAX_DELIVERIES` = 2.

Each checked property has a mutant of a modelled definition (a dropped guard, a
missing reset, a lookup by name instead of bytes), which its run refutes: no property
holds by the shape of the model. The modules mark them `MUTANT` or "A bug it could have".
Where a checked property has several parts, each part has an operator of that kind beside
the definition it would replace, and `PROJECT.json` names the one whose part is
hardest to break.

## Fairness

`Bucket`: strong fairness for the steps of every process that has begun. A
handler is polled until it ends or is dropped; tokio mutexes serve their waiters
in order and flock waiters retry, so a step that is enabled again and again is
taken. Requests need not arrive, and neither losses, crashes nor cut-offs are
fair. `SavePdf`: weak fairness for each step of a window (timers fire, promises
settle, loads answer), strong fairness for `Admit` (the key lock is a fair
mutex that other saves take in between), weak fairness for what holds the lock
(`Commit` or `Fail`, `RecordEnds`). Nothing is asked of users or restarts.
`Extension`: weak fairness for the browser's end of a download, for the queue under the
mutex (promises settle), for the start of a worker (an alarm or an event starts it), for the
stop of an idle one (Chrome stops it by itself) and for each delivery (its fetches answer or fail). Kills, resumed downloads, users and
new builds are not fair. The other modules state safety alone: what a user does next
is up to the user, and requests that never end are part of their behaviours.

## Proofs

Checked by TLAPS, for all values of the constants that satisfy the named
assumptions of the modules.

`BucketProofs`:

| Theorem | Assumes | Says |
| --- | --- | --- |
| `TypeCorrect` | | `Spec => []TypeOK` |
| `NeverOverwrittenHolds` | | `Spec => NeverOverwritten`, crashes and cut-off requests included |
| `FreshCaptureHolds` | no capture cut off, no rebuild by command | `Spec => FreshCapture`, whatever rebuilds, deletes and forgets are cut off |
| `OneCopyHolds` | no capture cut off, no rebuild | `Spec => []OneCopy` |
| `RemovedStoredInFlightHolds` | no capture or delete cut off, no rebuild, no crash | `Spec => []RemovedStoredInFlight` |
| `FilingOwnedHolds` | no delete cut off, no loss, no crash | `Spec => []FilingOwned` |
| `DeliberateNeverMissingHolds` | one delete, not cut off; no forget, rebuild, loss or exporter beside the app's; `Patient` | `Spec => []DeliberateNeverMissing`, crashes included |
| `ExportKeepsLostHolds` | each upload under names of its own; no delete cut off, no rebuild, no crash, no exporter beside the app's | `Spec => ExportKeepsLost` |

The types (`Typed`) alone are not inductive: a step at a key needs the key to be one, so
`TypeOK` says `Assigned` too. For the captures, `PInv` says that a capture at its
rename or read-back holds the placing mutex, and that the one at its rename
brings bytes stored nowhere. A rebuild in the app keeps it, since it takes the
mutex for its look and rename, and one whose handler was dropped in between can only bring
back a stray; one by command does not, since its mutex is another process's. `OneCopy`
then follows from what a step may do to `pdf` (`PdfStep`: take out, or place one
item at a vacant key).

Each assumption is one the runs make too, for a behaviour told
[below](#where-code-and-documents-part): without it the property fails. Beyond
`RemovedStoredInFlight` nothing need be known but that no request runs on after its
client left (`Whole`). `FInv` says of every key what `FilingOwned` says of answered
captures alone. `DInv` follows the one delete: what left and what is marked is its
item and its key, until it is decided the item lies there (`Deciding`), and from then
on the mark stays, or the key is taken, or no export can list the item again
(`Gone`, which speaks of the snapshot under way as well). `LInv` says of each key that
at most one capture chooses it and that what is stored, listed or seen there is that
capture's (`StoredPast`), that a marked key's item left on purpose (`Marked`), and of an
export past its check that what it leaves out left on purpose and is gone (`Excused`).

`SavePdfProofs`. All four assume `OneKeep`: no window has two keepMine under way at once.
That is an assumption on the user. The code does not enforce it: the button stays enabled
while one is under way, and with two `NoSilentOverwrite` and `MetadataNeverUndone` are
[false](#where-code-and-documents-part). So the theorems say nothing of a user who presses it twice.

| Theorem | Says |
| --- | --- |
| `SaveTypeCorrect` | `OneKeep`: `Spec => []TypeOK`; in particular no count of saves goes below zero |
| `NoSilentOverwriteHolds` | `OneKeep`: `Spec => NoSilentOverwrite` |
| `MetadataNeverUndoneHolds` | `OneKeep`: `Spec => MetadataNeverUndone` |
| `NothingLostQuietlyHolds` | `OneKeep` and `Careful`: `Spec => []NothingLostQuietly` |

The invariant `IInv` is needed for both action properties, because a commit
happens long after the comparison that admitted it. Its parts: what
`metadata_writes` calls the same PDF has the same edits (`WritesInv`); a PUT its
window still hears of carries an earlier state of the window's document, and
one admitted holds the lock (`CallInv`); keepMine runs only while the conflict is
open (`KeepInv`) and a queued save only while none is (`SaveInv`), so the two never
answer into each other; without a conflict the document was made from the bytes the tag names
(`ReaderInv`). So an admitted ordinary save holds every stored edit, and the
stored metadata unless it is written in again. `IInv` does not need `Careful`.
`NothingLostQuietly` does, and `QInv` beside it: an edit neither stored nor given up is
in an open window (`Held`), a window that says nothing holds no other (`Quiet`), and the
last save a window awaits carries all that the window holds (`Same`).

`SendProofs`, for any number of requests of every kind (deletes included), notes,
annotations, attachments, disconnects and crashes:

| Theorem | Says |
| --- | --- |
| `SendTypeCorrect` | `Spec => []TypeOK` |
| `RecordTrueHolds` | `Spec => []RecordTrue` |
| `MarkdownCompleteHolds` | `Spec => []MarkdownComplete`: until a request takes the key's lock while file work of a cut-off one runs |
| `NeverTwiceHolds` | `Spec => NeverTwice` |
| `PdfAlwaysHolds` | `Spec => PdfAlways` |
| `LeavesSentHolds` | `Spec => LeavesSent`: but for what came since the last reading, and a Markdown extracted again |

Its `IInv` says of each request what holds where it stands: who holds the locks
(`OwnersAt`; a delete that was cut off goes on without them), which request gets where
(`RolesAt`), that one request's file work is under way until it clashes (`Apart`), what a
placing has cleared so far (`BesideAt`), that a send goes by the filing's own record and owes nothing that record
names (`FitsAt`), and which PDFs Zotero holds while `one_pdf` works (`PdfAt`).
`RecordTrue` alone is not inductive: the record a send is about to save must be true
as well, and stay so while others act. `StepIInv` carries what the other requests know
over a step of one; it needs only that the step changes the files in file work of its own
and the record under the send lock, and that Zotero loses nothing (`Gains`).
`LeavesSent` needs what a send knows of the notes and the Markdown that were there when
it last read the filing: `LInv` says that it found the Markdown among them (`FoundAt`),
that each of them is recorded or still to be done (`OwesAt`), that a PDF is sent alone only
while there is none (`AloneAt`), and that Zotero holds them all once nothing is left to
do (`SentAt`). Of the Markdown it says that one lying there while a record names one was
sent, or came after it (`Mailed`).

`InputProofs`, for any pages, corners, PDFs, annotations, points and tools, any bound on
the places kept, any idle time and least time to count, and any clock:

| Theorem | Says |
| --- | --- |
| `PointerSettlesAlways` | `PointerSettles` always holds of `PointerInit` and `PointerNext`: tools are given back but in the two PDFs of a stroke that ended elsewhere |
| `EraserExactHolds` | `EraserExact` does: a movement deletes exactly what a point of its way comes near on the pages drawn |
| `HistoryTyped` | `HistorySpec => []HistoryTypeOK`; the index lies in the positions or right after them |
| `WalksAsBrowserAlways` | `HistorySpec => WalksAsBrowser`: the refinement of `BrowserHistory` |
| `SessionTyped` | `SessionSpec => []SessionTypeOK` |
| `TimeExactAlways` | `SessionSpec => []TimeExact`: nothing is counted twice, nor a long run in part |
| `ReportsGrowAlways` | `SessionSpec => ReportsGrow` |

Under the mapping (the positions before the index are behind, those after it ahead) a
jump is `Go`, a scroll `Wander`, and a step `GoBack` or `GoForward`; each is a lemma
about the sequences before and after. The invariant is needed because the place shown
is in the array only after a step has left it. `PointerSettles` becomes inductive with
what a stroke and a pause remember of the tool before them (`PInv`). For the eraser,
`CrossesIsTouched` is geometry over the integers: the clipping of `pointerInput.ts` passes
a box if and only if some point of the segment lies in it (`BoundsMeet`: bounds that
leave room name such a point; `PassedIsClipped`: a point inside keeps every bound).

`TimeExact` is not inductive, since it says nothing of a stretch too short to count,
which may count after a tick. `SessionInv` adds it: what the session has read of a page
and what lasted of the stretch on it (`Lasted`) is at most what was read, the run on the
screen is what lasted, and so is bounded each report under way. A stretch may last less
than nothing: the page can turn while the user is idle, and the stretch then begins
after the time until which the user read.

`DocumentsProofs`, for any keys and pages, any number of PDFs kept awake, and any bounds:

| Theorem | Assumes | Says |
| --- | --- | --- |
| `TabsSoundHolds` | no load fails late, no stray documents | `Spec => []TabsSound` |
| `FocusKeptShownHolds` | the same | `Spec => FocusKeptShown` |
| `SleepsWhereItWasHolds` | the same | `Spec => SleepsWhereItWas` |
| `SettledBeforeClosedHolds` | no slow close either | `Spec => SettledBeforeClosed` |

The tab row is computed: EmbedPDF's order filtered, the sleeping tabs sorted by their
indexes and inserted one by one. So the module begins with what filtering, sorting and
inserting do to sequences of any length in which no key is twice (`Rows`: `KeptRow`,
`SortedRow`, `InsertRow`), each by the least-number principle over the recursion
(`Upwards`, `Recursion`), and gets from them that the row has exactly the awake and the
sleeping tabs (`TabsRow`), that a tab that goes has a neighbour unless it is the last
(`NeighbourIs`) and that a bookmark's index is one of the row's (`IndexIs`). The invariant
`Standing` holds between any two handlers; inside one, EmbedPDF holds a PDF the reader no
longer does, so `Core` names the PDFs `leaving`. The documents EmbedPDF holds are those of
awake tabs that are not in the row of tabs it does not hold yet (`Docs`). It adds to
`TabsSound` that what waits for a PDF and is current waits for one in the state it
expects, a load in EmbedPDF's hands for one open and not laid out (`Pending`), that only
PDFs laid out have edits in hand and only open ones a layout, and that the page of a PDF
laid out is kept apart from its viewport. `Drowsing` lets a PDF be excused while its wait is
over and its tab not yet gone (`DoneGoes`). `SettledBeforeClosed` needs that a wait still
current ends only once the PDF is saved, and a stale one never with a close.

`ExtensionProofs`, for any responses, tabs, URLs and kinds, either browser and all bounds:

| Theorem | Says |
| --- | --- |
| `ClaimsSoundAlways` | `Spec => []ClaimsSound`: types, one delivery at a time, few hand-overs, one reload per build |
| `DiscardedIsHeldAlways` | `Spec => []DiscardedIsHeld` |
| `CapturesSoundHolds` | `Spec => []CapturesSound`: besides, both browsers take the same answers |

None of it is inductive by itself: what an operation does depends on what was true when
it was queued. So `WorkInv` says of each waiting operation what it will find
(`WaitingOK`: a claim finds no claim, a release no delivery under way but one that is
over, the resumption of claims no delivery at all), and of their order (`Shape`) that
resumption comes first and that a download is claimed once, with no release of it
waiting. Each delivery goes on under a claim with its own number (`RunOK`), from which one
delivery at a time and the bound on hand-overs follow; it reaches the removal of a file only
with its PDF stored or its frame too small. `Waiting` is the mutex's queue or,
while no worker runs, the events that will start one. `WorldInv` keeps a mark, a
claim and a download to responses received, which stay what they are (`Grows`).
`RulesDecide` unfolds the priorities of Chrome's rules, `PatternsAreHeaders` compares their
patterns with the parsed headers.

`LibraryProofs`, from any sound filing (`SoundLibrary`), for any papers, tags,
collections, saved searches, windows, requests and faults:

| Theorem | Says |
| --- | --- |
| `FilingSoundHolds` | `LibrarySpec(...) => []FilingSound` |
| `StaleIsToldHolds` | `LibrarySpec(...) => []StaleIsTold` |
| `NeverBackHolds` | `LibrarySpec(...) => NeverBack` |
| `SelectionsExactHolds` | `LibrarySpec(...) => []SelectionsExact` |

The filing stays sound because every change of it does (one lemma per change), what a
window shows because it once was the server's, and what a window knows is current or
about to be read (`Aware`). `SelectionsExact` is about data of any size: `CollectionSubtree`
is a recursion over the depth of the tree of collections, and `SubtreeLeast`,
`SubtreeHas` and the lemmas after them show by the least-number principle
(`LeastNatural`) that it is the least set with the collection that holds what lies in it.

`WindowProofs`, for any papers, dialogs, editors and requests, and for any columns,
bindings and finitely many sessions of finitely many pages:

| Theorem | Assumes | Says |
| --- | --- | --- |
| `RequestsAccountHolds` | | `FormsSpec => []RequestsAccount` |
| `UnsavedKeptHolds` | no typing into a text being stored | `FormsSpec => UnsavedKept` |
| `ViewsExactHolds` | no session was last seen before it opened | `ViewsSpec(held) => []ViewsExact` |

`AccountInv` adds to the account of the requests that each kind of control is in a state
its form can be in (`Formed`), that the marks are of requests under way (`MarkedWell`)
and what is guessed of an item stands in its request (`GuessWell`). `KeptInv` says of each
text what it is compared with when an answer comes (`DialogHeld`, `NotesHeld`,
`MirrorHeld`, `EditorHeld`); every step keeps what was typed (`StepKeeps`), and what
sends or deletes settles first (`StepSettles`).

`ViewsExact` is mostly about data of any size: the Timeline and the ranges are recursions
over a set that take out its last member. `Peeling` shows that a function defined so
exists, by an induction over the sizes of subsets, and `Shrinking` is the induction that
its values are then shown by: that the entries made so far are runs, one over before
the next opens (`Runs`, kept by `RunsWith`), and that the ranges name the pages so far
(`Names`, kept by `ReachNames`). A reader stores what it assumes of a session unless its
clock is set back in between (`readingSession.ts:18`, `94-95`). The columns stay as they are
because a member taken out and put in elsewhere is there once (`MovedOnce`), the keys
because a combination in use is refused (`KeysApart`).

Only model-checked: `RequestsEnd`, `ExportSettles`, `SettleEnds` and `ClaimsEnd`, since
liveness under fairness and `ENABLED` are out of TLAPS' reach. No module uses a `RECURSIVE` operator.

## Where code and documents part

Two runs end in a violation, each of a statement the repository makes:

- `kept_edit`. `documentStorage.ts`: settle "waits for every annotation to be saved,
  rejecting while a save has failed or a save conflict is open". The save of an
  edit drawn while keepMine is on its way returns early for the conflict; the
  answer clears conflict and failure, and nothing says the edit is unsaved.
- `slow_close`. `readerHost.ts`: "Close and sleep settle the PDF first (send its reading
  session, save every annotation) and reject, leaving it open, when it cannot settle".
  A close that waited goes on for whatever PDF the tab holds by then
  (`documents.ts:335`). Reloaded, or slept and reopened, it holds another storage, whose
  edits never settled. A sleep asks whether the storage is the one it settled
  (`documents.ts:300`).

Seen while modelling, with instances TLC finds but no run of their own.

The bucket and its readers:

- README.md: "The export never drops an item whose PDF went missing without being
  deleted or sent". `AppState::remove` records the key before the PDF is trashed
  (`state.rs:90`). A crash in between leaves the stored item marked removed; nothing clears
  that at the next start. If its PDF is later lost, the export drops it in silence.
- README.md: "`just export-index` writes it on demand, safely while the app runs".
  `export_index` writes after it released the filing lock (`export.rs:132`), so an older
  view can be written last and drop an item whose PDF was lost since.
- README.md: "The app rewrites it after every capture". A capture whose client
  disconnects after the rename never notifies the exporter (`app.rs:64`).
- `libraryActions.ts`: a send waits until the annotations are saved, "so the send
  carries them". A send that fails after its PDF step has recorded it; the next skips
  it, whatever was drawn since, and takes the item away (`send.rs:96`).
- an exporter that prunes a key between the commit of a new capture and its
  claim lets the claim return early: the new item inherits filing made in the
  meantime (`NothingInherited`; `organization.rs:605`)
- the last step of a delete drops the filing of its key without a look at the
  store: a note on an item captured there since is lost (`FilingKept`; `state.rs:95`)
- a rebuild whose client disconnects during its rename lets go of the placing mutex
  (`source_routes.rs:153`, `store.rs:672`): its PDF can land between a capture's second look
  and its rename, and the bytes are then stored twice (`Strays`)
- a rebuild under way brings a deleted item back; a forget during a rebuild
  leaves the restored key in `removed.json`
- `held_keys` is read before the provenance is embedded: a capture can take the
  key of an item that went missing meanwhile
- with two keepMine under way (the button stays enabled), an ordinary save that
  began before the second one's 412 puts with the new tag: it overwrites an
  edit and undoes metadata
- an app that ends between the record of the last step and the removal leaves an
  item that is sent and stays: the next send is refused as already sent (`send.rs:341`)
- a send whose PDF was attached and whose answer was lost, or that failed before the
  poorer PDF was trashed, leaves two PDFs in Zotero; the next send refuses them
  until the user keeps one
- what is added after a send read the notes and the Markdown leaves with the item
  unsent; a collection that comes to keep it offline after `leave` looked does not keep it
- an extraction that waits for the key's lock while the item is removed places its
  output beside no PDF (`store.rs:709`)
- an extraction or a delete whose client disconnects lets go of the key's lock while its
  trash and renames run on (`extractions.rs:268`, `send.rs:511`, `store.rs:695`, `710-729`):
  with those of the next placing a Markdown can come to lie beside foreign artifacts, or
  beside none (`clashed`)
- `docs/m3.md:39`: "an extraction or note made after the send, leaves steps owed". A Markdown
  extracted again once the record names one owes no step (`send.rs:60-64`, `89-98`): Zotero
  keeps the old one, and the next send takes the new one away unsent (`mailed`)
- a save that failed is not tried again until another edit; a lost answer or a
  restart between a metadata write and a save ends in a conflict that need not be one

The extension:

- a frame that closed while its download was delivered makes each further delivery
  throw, although `downloads.ts:18-19` and `background.ts` count on a frame that is
  there: its claim does not end (`background.ts:145`). `ClaimsEnd` leaves frames out.
- the file of a small frame is removed before the frame is exempted: a worker stopped in
  between has removed what the bucket does not hold, and the frame is not handed back although
  the comment says so (`background.ts:133`, `138-148`); `DiscardedIsHeld` counts such a
  frame as cut. A small frame whose removal is done and whose tab is gone throws each time
- a claim whose first event is lost when the worker stops is never resumed, since
  it counts no delivery (`downloads.ts:146`); nor is the claim of a resumed download in Firefox, whose
  delivery threw, released
- a claim writes the marks and the claims in two steps (`downloads.ts:110-120`): a worker stopped
  in between loses the mark
- the reload of a stale build clears the session storage, and the running claims with
  it (`bucket-status.ts:90-96`, `downloads.ts:14`)
- a mark Firefox has not used yet lets a later download in an exempt tab be captured
- the `*` and `^` of an exempted URL are wildcards of Chrome's filter, while `intercepts`
  compares the URL as it is

The reader:

- a load that fails late marks the tab failed, whatever it holds by then
  (`documents.ts:220-234`)
- a load that fails once EmbedPDF took the bytes in marks the tab failed, and nothing
  closes EmbedPDF's document: it stays after its tab is closed (`documents.ts:278-281`
  closes open ones only), EmbedPDF may make it active by itself, and the focus is then on
  a key no tab has (`StrayDocuments`; TLC finds `TabsSound` violated in four steps)
- a close that meets a sleep under way leaves the tab asleep (`documents.ts:335`,
  `readerTabs.ts:9-11`)
- PDFs opened one after another before any was shown never count as shown, so more than
  `AWAKE_READERS` stay open (`documents.ts:22`)
- a PDF put to sleep before it was laid out loses its bookmark; closing a tab moves the sleeping
  tabs after it; a background PDF that goes while a failed tab is shown moves the focus
- a covered PDF goes on being read while a loading or failed tab is shown
- a stroke carried to another PDF gives its tool back there, and the PDF it began in keeps
  the highlighter (`pointerInput.ts:396-406`, against `docs/m2.md:138`); the release of
  another pointer ends a pause
- what the eraser passes while the pages are laid out anew stays (`pointerInput.ts:297-300`)
- reports of a session may overtake one another, and the bucket keeps the one that
  arrives last (`sessions.rs:55-63`): less than was read, never more
- a PDF that slept wakes with an empty jump history

The library:

- a text typed while the one before is being stored is lost when that is accepted: a
  note (`InspectorPanel.tsx:455-466`), a mirror (`184-193`), a name (`NameDialog`, against its comment)
- the first save of a metadata editor closes a second one opened since; opening the
  editor drops a mirror being typed; an editor saves every field as it was when it opened
- the Notes tab, left and shown again, lets the same draft be submitted twice
- menu and commands send an item that is being sent; a rebuild and a rebuild of all clear each
  other's mark
- a new collection is navigated to before the library holds it; filing into a new
  collection leaves it empty if the filing fails
- a column dragged to the right lands before its target and none reaches the end
  (`useLibraryTable.ts:83`); each window keeps its own column layout, the last writer wins
- Ctrl+Enter or Ctrl+Delete bound to an action also opens or deletes the selection
  (`useLibraryShortcuts.ts:46-53`); `OneActionEach` allows that and no other pair
- the shortcut that opens the commands does not return to them once the user turned
  the palette to items

Hazards without a property: a rebuild by command that reads the export alone (`main.rs:234`), the
filing lock released when its handler is dropped (`organization.rs:464`), a save cut off during
its rename (`store.rs:623`), `kept_offline` read before the removal (`send.rs:325`), a slow retrieval
that writes to a deleted key (`titles.rs:81`), events that a subscriber which fell behind never
hears (`events.rs:79`), an import that writes filing and sessions in two steps (`export.rs:189`), the
list of missing items read from export, store and removals one after another (`export.rs:335`), and
two rebuilds that work from one such list (`source_routes.rs:145`).

## Not modelled

- `Bucket`: `import-index`, read errors, the sessions an export carries, hash and index
  caches. `Send`: what is sent (fields, titles, file names), the health watch, an
  extraction's limits and answer. `SavePdf`: a PUT handler cut off during its rename (the
  mechanism is `OrphanCommit` of `Bucket`).
- The slow writers by key (retrieved titles, thumbnails) and filing writes that outlive
  their handler: planned.
- Extension: the popup with its Send tabs (it reads the list of tabs once; one may have
  navigated or closed meanwhile), the settings, link captures by message, duplicate headers.
- Library: the text index behind the search box, imports of a folder file by file, routes and
  the history of the window, the command palette, the viewer's toolbar; a dialog's layout.
- Reader: EmbedPDF itself (rendering, layout, its undo), the outline, search in a PDF.

Left out for good: HTTP header guards, configuration, error texts, generated
types, HTML and PDF parsing, rendering, the install scripts:
they keep no state that others share. Zotero and the Python commands are
external, modelled by the outcomes the server handles.
