------------------------------- MODULE Bucket -------------------------------
(***************************************************************************)
(* The bucket: the stored PDFs, the filing document, removed.json and the  *)
(* index export, and every request, command and background task that      *)
(* changes them.  Captures place a PDF under a key and claim the key;      *)
(* deletes (and the last part of a send to Zotero) record the key as       *)
(* removed, trash the PDF and drop its filing; forgetting and rebuilding   *)
(* act on items whose PDF was lost; exporters rewrite the index export and *)
(* prune what it dropped.  Each is a sequence of steps between awaits, so  *)
(* they interleave; the app's requests also end in the middle, when it     *)
(* crashes or quits, or when a client disconnects.                         *)
(*                                                                         *)
(* Two reductions: a step that takes a lock also does the first read the   *)
(* lock guards, and a read or write of one document under the filing lock  *)
(* is one step, since every writer of that document holds the same lock.   *)
(***************************************************************************)
EXTENDS Naturals, FiniteSets, Sequences

CONSTANTS
    Keys,         \* the keys the PDFs may be stored under
    Uploads,      \* captures, imports of a URL, files of Add Folder; each
                  \* also names the item it makes
    Original,     \* upload |-> the original bytes (SHA-256) it brings
    Candidate,    \* upload |-> the keys its file name gives, in order
    Deletes,      \* requests that take an item out: delete, send to Zotero
    Forgets,      \* requests and commands that forget a lost item
    Rebuilds,     \* requests and commands that rebuild a lost item
    Filings,      \* requests that file data (a note, a tag) on an item
    App,          \* the running app's index exporter
    CliExports,   \* runs of `export-index` beside the app
    Cli,          \* the forgets and rebuilds run as commands, not in the app
    Cancellable,  \* requests whose client may disconnect
    Patient,      \* TRUE: clients act on an item once its capture ended
    MaxLosses,    \* bound on stored PDFs that go missing by themselves
    MaxCrashes,   \* bound on crashes (or quits) of the app
    None

Exporters == {App} \cup CliExports
Removing  == Deletes \cup Forgets
Requests  == Uploads \cup Removing \cup Rebuilds \cup Filings
Procs     == Requests \cup Exporters
InApp     == Procs \ (Cli \cup CliExports)

ASSUME CandidateAssumption ==
    /\ DOMAIN Original = Uploads
    /\ Candidate \in [Uploads -> Seq(Keys)]
ASSUME BoundAssumption == MaxLosses \in Nat /\ MaxCrashes \in Nat
ASSUME KindAssumption ==
    /\ Cli \subseteq Forgets \cup Rebuilds
    /\ Cancellable \subseteq Requests \ Cli
    /\ Patient \in BOOLEAN
ASSUME DistinctAssumption ==
    /\ None \notin Keys \cup Procs
    /\ App \notin CliExports
    /\ Requests \cap Exporters = {}
    /\ Uploads \cap (Removing \cup Rebuilds \cup Filings) = {}
    /\ Deletes \cap (Forgets \cup Rebuilds \cup Filings) = {}
    /\ Forgets \cap (Rebuilds \cup Filings) = {}
    /\ Rebuilds \cap Filings = {}

VARIABLES
    pdf,         \* key |-> the item whose PDF is stored there
    filing,      \* key |-> the items whose data its filing entry holds
    removed,     \* removed.json: the keys removed on purpose
    export,      \* the index export: key |-> the item it records
    filingLock,  \* holder of the filing lock (a mutex and flock(2))
    placing,     \* holder of the app's placing mutex, of the store
    sends,       \* key |-> holder of its send lock
    changed,     \* the permit of the Notify that wakes the app's exporter
    pc,          \* where each process stands
    at,          \* request |-> the key it works on
    held,        \* upload |-> the held keys it read
    item,        \* removing or rebuilding request |-> the item it is about
    seen,        \* exporter |-> its view of the stored PDFs and removed.json
    left,        \* history: items removed on purpose and not restored since
    losses, crashes

disk  == <<pdf, filing, removed, export>>
locks == <<filingLock, placing, sends>>
local == <<at, held, item, seen>>
env   == <<losses, crashes>>
vars  == <<disk, locks, changed, pc, local, left, env>>

NoKeys == [k \in Keys |-> None]
Unseen == [stored |-> NoKeys, removed |-> {}]

\* Where a process may stand, between two awaits of its handler.
Points == {"idle", "look", "place", "commit", "verify", "claim", "unfile",
           "stored", "record", "trash", "drop", "withdraw", "forget", "check",
           "fetch", "restore", "restored", "wait", "snapshot", "previous",
           "write", "prune", "pruneFiling", "orphan", "late", "done"}

Typed ==
    /\ pdf \in [Keys -> Uploads \cup {None}]
    /\ filing \in [Keys -> SUBSET Uploads]
    /\ removed \in SUBSET Keys
    /\ export \in [Keys -> Uploads \cup {None}]
    /\ filingLock \in Procs \cup {None}
    /\ placing \in Uploads \cup Rebuilds \cup {None}
    /\ sends \in [Keys -> Deletes \cup {None}]
    /\ changed \in BOOLEAN
    /\ pc \in [Procs -> Points]
    /\ at \in [Requests -> Keys \cup {None}]
    /\ held \in [Uploads -> SUBSET Keys]
    /\ item \in [Removing \cup Rebuilds -> Uploads \cup {None}]
    /\ seen \in [Exporters -> [stored : [Keys -> Uploads \cup {None}],
                               removed : SUBSET Keys]]
    /\ left \in SUBSET Uploads
    /\ losses \in 0..MaxLosses
    /\ crashes \in 0..MaxCrashes

\* A process that works on a key has one, and so has it an item.
Assigned ==
    /\ \A u \in Uploads :
          pc[u] \notin {"idle", "look", "place", "stored", "done"}
              => at[u] \in Keys
    /\ \A p \in Removing \cup Rebuilds :
          pc[p] # "idle" => at[p] \in Keys /\ item[p] \in Uploads

TypeOK == Typed /\ Assigned

Init ==
    /\ pdf = NoKeys /\ export = NoKeys
    /\ filing = [k \in Keys |-> {}]
    /\ removed = {} /\ left = {}
    /\ filingLock = None /\ placing = None /\ sends = NoKeys
    /\ changed = TRUE
    /\ pc = [p \in Procs |-> IF p = App THEN "wait" ELSE "idle"]
    /\ at = [p \in Requests |-> None]
    /\ held = [u \in Uploads |-> {}]
    /\ item = [p \in Removing \cup Rebuilds |-> None]
    /\ seen = [x \in Exporters |-> Unseen]
    /\ losses = 0 /\ crashes = 0

Goto(p, from, to) == pc[p] = from /\ pc' = [pc EXCEPT ![p] = to]

\* MUTANT: notify_waiters in place of notify_one keeps no permit.
NotifyWaiting(p) ==
    changed' = (changed \/ (p \in InApp /\ pc[App] = "wait"))
\* Nothing listens for the changes of a command.
Notify(p) == changed' = (changed \/ p \in InApp)

StoredItems == {pdf[k] : k \in Keys} \ {None}
StoredKeys  == {k \in Keys : pdf[k] # None}

\* The placing mutex belongs to the app's process: commands have their own.
\* MUTANT: a rebuild does not take it.
PlacingFreeForUploads(p) == p \in Uploads => placing = None
PlacingFree(p) == p \in InApp => placing = None

\* A PDF is renamed into place only where no file is.
\* MUTANT: Placement::Over for new PDFs.
AlwaysVacant(k) == TRUE
Vacant(k) == pdf[k] = None

\* A key a client may name: its library shows the item stored there.
Shown(k) == pdf[k] # None /\ (Patient => pc[pdf[k]] = "done")

-----------------------------------------------------------------------------
(* Capture, import of a URL, one file of Add Folder.                       *)

\* The keys a capture may not take: one view under the filing lock.
ReadHeld(u) ==
    /\ filingLock = None
    /\ Goto(u, "idle", "look")
    /\ held' = [held EXCEPT ![u] =
           {k \in Keys : filing[k] # {} \/ export[k] # None} \ removed]
    /\ UNCHANGED <<disk, locks, changed, at, item, seen, left, env>>

\* MUTANT: only the PDF under the first key of its name is compared.
HoldingByName(u) ==
    \E v \in {pdf[Candidate[u][1]]} \ {None} : Original[v] = Original[u]
Holding(u) == \E v \in StoredItems : Original[v] = Original[u]

\* MUTANT: a PDF that is stored already goes on to claim a key.
FirstLookClaims(u) ==
    /\ Goto(u, "look", IF Holding(u) THEN "claim" ELSE "place")
    /\ UNCHANGED <<disk, locks, changed, local, left, env>>
\* A first look at the store, before the provenance is embedded.
FirstLook(u) ==
    /\ Goto(u, "look", IF Holding(u) THEN "stored" ELSE "place")
    /\ UNCHANGED <<disk, locks, changed, local, left, env>>

FreeCandidates(u) ==
    {i \in DOMAIN Candidate[u] :
        Candidate[u][i] \notin held[u] \cup StoredKeys}

\* The second look and the choice of the key, under the placing mutex.
Place(u) ==
    /\ PlacingFree(u)
    /\ \/ /\ Holding(u)
          /\ Goto(u, "place", "stored")
          /\ UNCHANGED <<at, placing>>
       \/ /\ ~Holding(u) /\ FreeCandidates(u) = {}
          /\ Goto(u, "place", "done")
          /\ UNCHANGED <<at, placing>>
       \/ /\ ~Holding(u) /\ FreeCandidates(u) # {}
          /\ Goto(u, "place", "commit")
          /\ placing' = u
          /\ \E i \in FreeCandidates(u) :
                /\ \A j \in FreeCandidates(u) : i <= j
                /\ at' = [at EXCEPT ![u] = Candidate[u][i]]
    /\ UNCHANGED <<disk, filingLock, sends, changed, held, item, seen, left,
                   env>>

\* The rename, which fails when the key has a PDF by then.
Commit(u) ==
    /\ pc[u] = "commit"
    /\ \/ /\ Vacant(at[u])
          /\ Goto(u, "commit", "verify")
          /\ pdf' = [pdf EXCEPT ![at[u]] = u]
          /\ UNCHANGED placing
       \/ /\ ~Vacant(at[u])
          /\ Goto(u, "commit", "done")
          /\ placing' = None
          /\ UNCHANGED pdf
    /\ UNCHANGED <<filing, removed, export, filingLock, sends, changed, local,
                   left, env>>

\* The stored PDF is read back; then the placing mutex goes.
Verify(u) ==
    /\ pc[u] = "verify"
    /\ Goto(u, "verify", IF pdf[at[u]] = None THEN "done" ELSE "claim")
    /\ placing' = None
    /\ UNCHANGED <<disk, filingLock, sends, changed, local, left, env>>

Claim(u) ==
    /\ pc[u] = "claim" /\ filingLock = None
    /\ \/ /\ at[u] \in removed
          /\ Goto(u, "claim", "unfile")
          /\ removed' = removed \ {at[u]}
          /\ filingLock' = u
       \/ /\ at[u] \notin removed
          /\ Goto(u, "claim", "stored")
          /\ UNCHANGED <<removed, filingLock>>
    /\ UNCHANGED <<pdf, filing, export, placing, sends, changed, local, left,
                   env>>

Unfile(u) ==
    /\ Goto(u, "unfile", "stored")
    /\ filing' = [filing EXCEPT ![at[u]] = {}]
    /\ changed' = (changed \/ filing[at[u]] # {})
    /\ filingLock' = None
    /\ UNCHANGED <<pdf, removed, export, placing, sends, local, left, env>>

\* The exporter is woken, also for a PDF that was already stored.
Stored(u) ==
    /\ Goto(u, "stored", "done")
    /\ Notify(u)
    /\ UNCHANGED <<disk, locks, local, left, env>>

-----------------------------------------------------------------------------
(* Delete, and the removal that ends a send to Zotero.                     *)

Begin(d) ==
    /\ Goto(d, "idle", "record")
    /\ \E k \in Keys :
          /\ sends[k] = None /\ Shown(k)
          /\ sends' = [sends EXCEPT ![k] = d]
          /\ at' = [at EXCEPT ![d] = k]
          /\ item' = [item EXCEPT ![d] = pdf[k]]
    /\ UNCHANGED <<disk, filingLock, placing, changed, held, seen, left, env>>

Record(d) ==
    /\ Goto(d, "record", "trash")
    /\ filingLock = None
    /\ removed' = removed \cup {at[d]}
    /\ left' = left \cup {item[d]}
    /\ UNCHANGED <<pdf, filing, export, locks, changed, local, env>>

Trash(d) ==
    /\ Goto(d, "trash", "drop")
    /\ pdf[at[d]] # None
    /\ pdf' = [pdf EXCEPT ![at[d]] = None]
    /\ left' = left \cup {pdf[at[d]]}
    /\ UNCHANGED <<filing, removed, export, locks, changed, local, env>>

Finish(d, from) ==
    /\ Goto(d, from, "done")
    /\ sends' = [sends EXCEPT ![at[d]] = None]

\* MUTANT: a failed removal is not withdrawn.
TrashFailsQuietly(d) ==
    /\ Finish(d, "trash")
    /\ UNCHANGED <<disk, filingLock, placing, changed, local, left, env>>
\* No PDF is there any more, or the desktop trash refused it.
TrashFails(d) ==
    /\ Goto(d, "trash", "withdraw")
    /\ UNCHANGED <<disk, locks, changed, local, left, env>>

\* The removal failed: an item that is still stored never left.
Withdraw(d) ==
    /\ Finish(d, "withdraw")
    /\ filingLock = None
    /\ removed' = removed \ {at[d]}
    /\ left' = left \ {pdf[at[d]]}
    /\ UNCHANGED <<pdf, filing, export, filingLock, placing, changed, local,
                   env>>

\* MUTANT: the delete leaves its filing to the export.
DropNothing(d) ==
    /\ Finish(d, "drop")
    /\ UNCHANGED <<disk, filingLock, placing, changed, local, left, env>>
Drop(d) ==
    /\ Finish(d, "drop")
    /\ filingLock = None
    /\ filing' = [filing EXCEPT ![at[d]] = {}]
    /\ Notify(d)
    /\ UNCHANGED <<pdf, removed, export, filingLock, placing, local, left, env>>

-----------------------------------------------------------------------------
(* Forgetting and rebuilding an item the export lists and the store lost.  *)

Listed(f) ==
    /\ Goto(f, "idle", "forget")
    /\ \E k \in Keys :
          /\ export[k] # None
          /\ at' = [at EXCEPT ![f] = k]
          /\ item' = [item EXCEPT ![f] = export[k]]
    /\ UNCHANGED <<disk, locks, changed, held, seen, left, env>>

Forget(f) ==
    /\ pc[f] = "forget" /\ filingLock = None
    /\ \/ /\ pdf[at[f]] # None
          /\ Goto(f, "forget", "done")
          /\ UNCHANGED <<removed, filingLock, left>>
       \/ /\ pdf[at[f]] = None
          /\ Goto(f, "forget", "unfile")
          /\ removed' = removed \cup {at[f]}
          /\ filingLock' = f
          /\ left' = left \cup {item[f]}
    /\ UNCHANGED <<pdf, filing, export, placing, sends, changed, local, env>>

ForgetUnfile(f) ==
    /\ Goto(f, "unfile", "done")
    /\ filing' = [filing EXCEPT ![at[f]] = {}]
    /\ filingLock' = None
    /\ Notify(f)
    /\ UNCHANGED <<pdf, removed, export, placing, sends, local, left, env>>

\* The stored PDFs, then the export, are read without a lock.
FindLost(r) ==
    /\ Goto(r, "idle", IF r \in Cli THEN "fetch" ELSE "check")
    /\ \E k \in Keys :
          /\ pdf[k] = None /\ export[k] # None
          /\ at' = [at EXCEPT ![r] = k]
          /\ item' = [item EXCEPT ![r] = export[k]]
    /\ UNCHANGED <<disk, locks, changed, held, seen, left, env>>

\* Then removed.json, which `rebuild-cache` does not read.
CheckRemoved(r) ==
    /\ Goto(r, "check", IF at[r] \in removed THEN "done" ELSE "fetch")
    /\ UNCHANGED <<disk, locks, changed, local, left, env>>

FetchFails(r) ==
    /\ Goto(r, "fetch", "done")
    /\ UNCHANGED <<disk, locks, changed, local, left, env>>

\* The look, under the placing mutex of its own process.
LookToRestore(r) ==
    /\ pc[r] = "fetch"
    /\ PlacingFree(r)
    /\ \/ /\ ~Vacant(at[r])
          /\ Goto(r, "fetch", "done")
          /\ UNCHANGED placing
       \/ /\ Vacant(at[r])
          /\ Goto(r, "fetch", "restore")
          /\ placing' = IF r \in InApp THEN r ELSE placing
    /\ UNCHANGED <<disk, filingLock, sends, changed, local, left, env>>

\* The rename puts the item back, unless the key has a PDF by then.
PutBack(r) ==
    IF Vacant(at[r])
    THEN /\ pdf' = [pdf EXCEPT ![at[r]] = item[r]]
         /\ left' = left \ {item[r]}
    ELSE UNCHANGED <<pdf, left>>

Restore(r) ==
    /\ Goto(r, "restore", IF Vacant(at[r]) THEN "restored" ELSE "done")
    /\ PutBack(r)
    /\ placing' = IF placing = r THEN None ELSE placing
    /\ UNCHANGED <<filing, removed, export, filingLock, sends, changed, local,
                   env>>

Restored(r) ==
    /\ Goto(r, "restored", "done")
    /\ Notify(r)
    /\ UNCHANGED <<disk, locks, local, left, env>>

-----------------------------------------------------------------------------
(* A change to the filing of a stored item, such as adding a note.         *)

FileItem(n) ==
    /\ filingLock = None
    /\ Goto(n, "idle", "done")
    /\ \E k \in Keys :
          /\ Shown(k)
          /\ filing' = [filing EXCEPT ![k] = @ \cup {pdf[k]}]
    /\ Notify(n)
    /\ UNCHANGED <<pdf, removed, export, locks, local, left, env>>

-----------------------------------------------------------------------------
(* The exporters: the app's, woken by each change, and `export-index`.     *)

Wake(x) ==
    \/ /\ x = App /\ changed
       /\ Goto(x, "wait", "snapshot")
       /\ changed' = FALSE
       /\ UNCHANGED <<disk, locks, local, left, env>>
    \/ /\ x # App
       /\ Goto(x, "idle", "snapshot")
       /\ UNCHANGED <<disk, locks, changed, local, left, env>>

Snapshot(x) ==
    /\ filingLock = None
    /\ Goto(x, "snapshot", "previous")
    /\ seen' = [seen EXCEPT ![x] = [stored |-> pdf, removed |-> removed]]
    /\ UNCHANGED <<disk, locks, changed, at, held, item, left, env>>

\* MUTANT: an export never refuses.
MissingIgnored(x) == {}
Missing(x) == {k \in Keys : /\ export[k] # None
                            /\ seen[x].stored[k] = None
                            /\ k \notin seen[x].removed}

\* MUTANT: every removed key is pruned, exported or not.
DroppedAll(x) == seen[x].removed
Dropped(x) == {k \in seen[x].removed : seen[x].stored[k] = None}

Ended(x) == IF x = App THEN "wait" ELSE "done"

CheckPrevious(x) ==
    \/ /\ Missing(x) = {}
       /\ Goto(x, "previous", "write")
       /\ UNCHANGED <<disk, locks, changed, local, left, env>>
    \/ /\ Missing(x) # {}                  \* refused
       /\ Goto(x, "previous", Ended(x))
       /\ seen' = [seen EXCEPT ![x] = Unseen]
       /\ UNCHANGED <<disk, locks, changed, at, held, item, left, env>>

Write(x) ==
    /\ export' = seen[x].stored
    /\ IF Dropped(x) = {}
       THEN /\ Goto(x, "write", Ended(x))
            /\ seen' = [seen EXCEPT ![x] = Unseen]
       ELSE /\ Goto(x, "write", "prune")
            /\ UNCHANGED seen
    /\ UNCHANGED <<pdf, filing, removed, locks, changed, at, held, item, left,
                   env>>

Prune(x) ==
    /\ filingLock = None
    /\ Goto(x, "prune", "pruneFiling")
    /\ filingLock' = x
    /\ removed' = removed \ Dropped(x)
    /\ UNCHANGED <<pdf, filing, export, placing, sends, changed, local, left,
                   env>>

PruneFiling(x) ==
    /\ Goto(x, "pruneFiling", Ended(x))
    /\ filingLock' = None
    /\ filing' = [k \in Keys |->
           IF k \in Dropped(x) /\ pdf[k] = None THEN {} ELSE filing[k]]
    /\ seen' = [seen EXCEPT ![x] = Unseen]
    /\ UNCHANGED <<pdf, removed, export, placing, sends, changed, at, held,
                   item, left, env>>

-----------------------------------------------------------------------------
(* The environment.                                                        *)

\* A stored PDF goes missing by itself.
Lose(k) ==
    /\ losses < MaxLosses /\ pdf[k] # None
    /\ pdf' = [pdf EXCEPT ![k] = None]
    /\ losses' = losses + 1
    /\ UNCHANGED <<filing, removed, export, locks, changed, pc, local, left,
                   crashes>>

Running(p) == pc[p] \notin {"idle", "wait", "orphan", "late", "done"}

\* MUTANT: the placing mutex is a lock file, which a dead process leaves behind.
FreedOfButPlacing(ps) ==
    /\ filingLock' = IF filingLock \in ps THEN None ELSE filingLock
    /\ placing' = placing
    /\ sends' = [k \in Keys |-> IF sends[k] \in ps THEN None ELSE sends[k]]
\* A mutex goes with its guard, and flock(2) with its process.
FreedOf(ps) ==
    /\ filingLock' = IF filingLock \in ps THEN None ELSE filingLock
    /\ placing' = IF placing \in ps THEN None ELSE placing
    /\ sends' = [k \in Keys |-> IF sends[k] \in ps THEN None ELSE sends[k]]

\* Stored items whose removal, by one of DS, is recorded and undecided.
Undecided(ds) ==
    StoredItems \cap
        {item[d] : d \in {e \in ds : pc[e] \in {"trash", "withdraw"}}}

\* The app stops and starts again: its requests end where they stand, an
\* undecided removal took nothing out, and the new exporter's first export
\* runs at once.
Crash ==
    /\ crashes < MaxCrashes
    /\ crashes' = crashes + 1
    /\ LET ended == {p \in InApp : Running(p) \/ pc[p] = "orphan"}
       IN  /\ pc' = [p \in Procs |-> IF p = App THEN "wait"
                                     ELSE IF p \in ended THEN "done"
                                     ELSE pc[p]]
           /\ FreedOf(ended)
           /\ left' = left \ Undecided(ended \cap Deletes)
    /\ seen' = [seen EXCEPT ![App] = Unseen]
    /\ changed' = TRUE
    /\ UNCHANGED <<disk, at, held, item, losses>>

\* The client disconnects, so the handler is dropped at the await it stands
\* at; file work already handed to the blocking pool still runs.
Cancel(p) ==
    /\ Running(p)
    /\ \/ /\ pc' = [pc EXCEPT ![p] = "done"]
          /\ left' = left \ Undecided({p} \cap Deletes)
       \/ /\ pc[p] \in {"commit", "trash", "restore"}
          /\ pc' = [pc EXCEPT ![p] = "orphan"]
          /\ UNCHANGED left
    /\ FreedOf({p})
    /\ UNCHANGED <<disk, changed, local, env>>

OrphanCommit(u) ==
    /\ Goto(u, "orphan", "done")
    /\ pdf' = IF Vacant(at[u]) THEN [pdf EXCEPT ![at[u]] = u] ELSE pdf
    /\ UNCHANGED <<filing, removed, export, locks, changed, local, left, env>>

OrphanTrash(d) ==
    /\ Goto(d, "orphan", "done")
    /\ pdf' = [pdf EXCEPT ![at[d]] = None]
    /\ left' = left \cup ({pdf[at[d]]} \ {None})
    /\ UNCHANGED <<filing, removed, export, locks, changed, local, env>>

\* A rebuild that lands while a capture stands between its look and its rename
\* is late (history).
OrphanRestore(r) ==
    /\ Goto(r, "orphan", IF placing \in Uploads THEN "late" ELSE "done")
    /\ PutBack(r)
    /\ UNCHANGED <<filing, removed, export, locks, changed, local, env>>

-----------------------------------------------------------------------------
CaptureStep(u) ==
    \/ ReadHeld(u) \/ FirstLook(u) \/ Place(u) \/ Commit(u) \/ Verify(u)
    \/ Claim(u) \/ Unfile(u) \/ Stored(u) \/ OrphanCommit(u)
DeleteStep(d) ==
    \/ Begin(d) \/ Record(d) \/ Trash(d) \/ TrashFails(d) \/ Withdraw(d)
    \/ Drop(d) \/ OrphanTrash(d)
ForgetStep(f) == Listed(f) \/ Forget(f) \/ ForgetUnfile(f)
RebuildStep(r) ==
    \/ FindLost(r) \/ CheckRemoved(r) \/ FetchFails(r) \/ LookToRestore(r)
    \/ Restore(r) \/ Restored(r) \/ OrphanRestore(r)
ExportStep(x) ==
    \/ Wake(x) \/ Snapshot(x) \/ CheckPrevious(x) \/ Write(x) \/ Prune(x)
    \/ PruneFiling(x)
Environment ==
    \/ \E k \in Keys : Lose(k)
    \/ Crash
    \/ \E p \in Cancellable : Cancel(p)

Next ==
    \/ \E u \in Uploads : CaptureStep(u)
    \/ \E d \in Deletes : DeleteStep(d)
    \/ \E f \in Forgets : ForgetStep(f)
    \/ \E r \in Rebuilds : RebuildStep(r)
    \/ \E n \in Filings : FileItem(n)
    \/ \E x \in Exporters : ExportStep(x)
    \/ Environment

Spec == Init /\ [][Next]_vars

-----------------------------------------------------------------------------
(* Properties.                                                             *)

\* The same original bytes are never stored under two keys (Store::capture:
\* "the same original bytes already stored under any key are that item").
OneCopy ==
    \A j, k \in Keys :
        j # k /\ pdf[j] # None /\ pdf[k] # None
            => Original[pdf[j]] # Original[pdf[k]]

\* What rebuilds brought back late: cut off, they hold no placing mutex.
Strays == {item[r] : r \in {q \in Rebuilds : pc[q] = "late"}}

\* No capture stores bytes that some stored PDF was captured from, whatever
\* rebuilds bring back between its two looks at the store; only the rename of a
\* rebuild that was cut off can slip in behind the second one.
FreshCapture ==
    [][\A u \in Uploads :
          pc[u] \in {"commit", "orphan"} /\ u \in StoredItems' \ StoredItems
              => Original[u] \notin {Original[v] : v \in StoredItems \ Strays}]_vars

\* A stored PDF is never overwritten: a rename places a PDF only where none
\* is, also when it runs on after its request was dropped, or in a command
\* that does not share the app's placing mutex.
NeverOverwritten ==
    [][\A k \in Keys : pdf[k] # None => pdf'[k] \in {pdf[k], None}]_vars

\* A key in removed.json has a stored PDF only while a removal or a capture
\* of that key is under way: nothing else lets an export drop a stored item
\* as if it had been deleted.
RemovedStoredInFlight ==
    \A k \in removed : pdf[k] # None =>
        \/ \E d \in Deletes : at[d] = k /\ pc[d] \in {"trash", "withdraw"}
        \/ \E u \in Uploads : at[u] = k /\ pc[u] \in {"verify", "claim"}

\* Once its capture is answered, an item's filing holds nothing an earlier
\* item under its key left (OrganizationStore::claim).
NothingInherited ==
    \A k \in Keys :
        pdf[k] # None /\ pc[pdf[k]] = "done" => filing[k] \subseteq {pdf[k]}

\* The same while no removal at that key is still to drop its filing.
FilingOwned ==
    \A k \in Keys :
        \/ pdf[k] = None \/ pc[pdf[k]] # "done"
        \/ \E d \in Deletes : at[d] = k /\ pc[d] = "drop"
        \/ filing[k] \subseteq {pdf[k]}

\* What a user filed on an item stays while the item is stored and nobody
\* removes it.
FilingKept ==
    [][\A k \in Keys :
          pdf[k] \in filing[k] \ left /\ pdf'[k] = pdf[k]
              => pdf[k] \in filing'[k]]_vars

\* An item the export lists and whose PDF is gone stays in the export,
\* unless it was removed on purpose: the export may be the only record that
\* brings the PDF back (export_index refuses otherwise).
ExportKeepsLost ==
    [][\A k \in Keys :
          export[k] \notin {None, pdf[k]} \cup left
              => export'[k] = export[k]]_vars

\* An item removed on purpose that the export still lists is marked removed,
\* so it is never reported missing and never makes an export refuse.
DeliberateNeverMissing ==
    \A k \in Keys :
        export[k] \in left /\ pdf[k] = None => k \in removed

-----------------------------------------------------------------------------
(* Liveness.  Every process that has begun goes on: a handler is polled    *)
(* until it ends or is dropped, and waiters for a tokio mutex are served   *)
(* in order.  Requests themselves need not arrive.                         *)

Begun(p) == pc[p] # "idle"

Fairness ==
    /\ \A u \in Uploads : SF_vars(Begun(u) /\ CaptureStep(u))
    /\ \A d \in Deletes : SF_vars(Begun(d) /\ DeleteStep(d))
    /\ \A f \in Forgets : SF_vars(Begun(f) /\ ForgetStep(f))
    /\ \A r \in Rebuilds : SF_vars(Begun(r) /\ RebuildStep(r))
    /\ \A x \in Exporters : SF_vars(Begun(x) /\ ExportStep(x))

FairSpec == Spec /\ Fairness

\* Every request that begins ends: no order of taking the locks blocks.
RequestsEnd == \A p \in Requests : Begun(p) ~> pc[p] \in {"done", "late"}

\* The export comes to list exactly the stored items ("the app rewrites it
\* after every capture, filing change and reading session").
ExportSettles == <>[](export = pdf)
=============================================================================
