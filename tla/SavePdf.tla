------------------------------ MODULE SavePdf ------------------------------
(***************************************************************************)
(* Saving one stored PDF from the readers of several windows:              *)
(* src/web/reader/documentStorage.ts against Store::replace and            *)
(* Store::record_metadata of server/src/store.rs.                          *)
(*                                                                         *)
(* Bytes are what the properties tell apart: the annotation edits written  *)
(* into the PDF and the metadata recorded in it.  A SHA-256 (an entity     *)
(* tag, If-Match, a base in metadata_writes) is the bytes it hashes.       *)
(* Removing an annotation is an edit like any other: edits are only added. *)
(***************************************************************************)
EXTENDS Integers, FiniteSets

CONSTANTS
    Windows,      \* the readers that show this PDF, each in a window of its own
    Keeps,        \* the saves "Save my copy over it" may have under way at once
    Edits,        \* the annotation edits the user makes, each in some window
    Metas,        \* the metadata writes (title edits, Retrieve metadata)
    Unwritten,    \* the metadata captured with the PDF
    Careful,      \* whether the user waits for keepMine before drawing on
    MaxRestarts,  \* how often the app ends and is started again
    None

ASSUME WritesAssumption == Unwritten \notin Metas
ASSUME CallsAssumption == "save" \notin Keeps
ASSUME HoldersAssumption ==
    /\ None \notin Metas \cup (Windows \X (Keeps \cup {"save"}))
    /\ Metas \cap (Windows \X (Keeps \cup {"save"})) = {}
ASSUME SettingsAssumption == Careful \in BOOLEAN /\ MaxRestarts \in Nat

VARIABLES
    stored,    \* the bytes of the stored PDF
    writes,    \* Store::metadata_writes of this key, in memory
    lock,      \* who holds the key's lock
    awaiting,  \* the metadata writes not yet made
    reader,    \* the DocumentStorage of each window
    call,      \* the PUTs of each window: the save queue's, and keepMine's
    drawn,     \* the edits made so far
    given,     \* the edits the user gave up (an auxiliary variable)
    restarts

vars == <<stored, writes, lock, awaiting, reader, call, drawn, given, restarts>>

Bytes == [edits : SUBSET Edits, meta : Metas \cup {Unwritten}]
Calls == Keeps \cup {"save"}
Handlers == Windows \X Calls

Idle == [pc |-> "idle", bytes |-> None, tag |-> None, rebased |-> FALSE, heard |-> TRUE]

\* A storage made for BYTES just loaded.
Loaded(bytes) ==
    [at |-> "open", doc |-> bytes, tag |-> bytes, pending |-> FALSE, saving |-> 0,
     conflict |-> FALSE, failure |-> FALSE, settling |-> FALSE]

Init ==
    /\ stored = [edits |-> {}, meta |-> Unwritten]
    /\ writes = None
    /\ lock = None
    /\ awaiting = Metas
    /\ reader = [w \in Windows |-> Loaded(stored)]
    /\ call = [w \in Windows |-> [c \in Calls |-> Idle]]
    /\ drawn = {}
    /\ given = {}
    /\ restarts = 0

-----------------------------------------------------------------------------
(* The reader.                                                             *)

Unsaved(w) ==
    LET r == reader[w] IN r.pending \/ r.saving > 0 \/ r.conflict \/ r.failure

\* The PUT C of window W moves to PC with the changes CHANGED made to the rest.
Moves(w, c, changed) == call' = [call EXCEPT ![w][c] = changed]

\* The user draws in W: EmbedPDF commits the edit and restarts the save pause.
Edit(w) ==
    /\ reader[w].at = "open"
    /\ Careful => \A k \in Keeps : call[w][k].pc = "idle"
    /\ \E e \in Edits \ drawn :
         /\ drawn' = drawn \cup {e}
         /\ reader' = [reader EXCEPT ![w].doc.edits = @ \cup {e}, ![w].pending = TRUE]
    /\ UNCHANGED <<stored, writes, lock, awaiting, call, given, restarts>>

\* The pause is over, or a settle cuts it short: one save more is queued.
StartSave(w) ==
    /\ reader[w].at = "open" /\ reader[w].pending
    /\ reader' = [reader EXCEPT ![w].pending = FALSE, ![w].saving = @ + 1]
    /\ UNCHANGED <<stored, writes, lock, awaiting, call, drawn, given, restarts>>

\* PUT C of W exports the document as it stands now.
Export(w, c) ==
    Moves(w, c, [Idle EXCEPT !.pc = "export", !.bytes = reader[w].doc])

\* MUTANT: a save that returns early is never counted as finished.
SaveUncounted(w) ==
    /\ reader[w].saving > 0 /\ call[w]["save"].pc = "idle"
    /\ ~reader[w].conflict /\ Export(w, "save")
    /\ UNCHANGED <<stored, writes, lock, awaiting, reader, drawn, given, restarts>>

\* The next queued save runs: it returns at once while a conflict is open.
Save(w) ==
    /\ reader[w].saving > 0 /\ call[w]["save"].pc = "idle"
    /\ IF reader[w].conflict
       THEN reader' = [reader EXCEPT ![w].saving = @ - 1] /\ UNCHANGED call
       ELSE Export(w, "save") /\ UNCHANGED reader
    /\ UNCHANGED <<stored, writes, lock, awaiting, drawn, given, restarts>>

\* "Save my copy over it", offered while a conflict is open; not queued.
KeepMine(w, k) ==
    /\ reader[w].at = "open" /\ reader[w].conflict
    /\ call[w][k].pc = "idle"
    /\ Export(w, k)
    /\ UNCHANGED <<stored, writes, lock, awaiting, reader, drawn, given, restarts>>

\* The export is done: the PUT names in If-Match the tag held now.
Put(w, c) ==
    /\ call[w][c].pc = "export"
    /\ Moves(w, c, [call[w][c] EXCEPT !.pc = "sent", !.tag = reader[w].tag])
    /\ UNCHANGED <<stored, writes, lock, awaiting, reader, drawn, given, restarts>>

\* MUTANT: a refused save keeps the tag and opens no conflict.
AnsweredStaleQuietly(r, c) ==
    CASE c.pc = "ok" -> [r EXCEPT !.tag = c.tag, !.failure = FALSE, !.conflict = FALSE]
      [] c.pc = "stale" -> [r EXCEPT !.tag = c.tag]

\* What an answer to PUT C makes of the storage that sent it.
Answered(r, c) ==
    CASE c.pc = "ok" -> [r EXCEPT !.tag = c.tag, !.failure = FALSE, !.conflict = FALSE]
      [] c.pc = "stale" -> [r EXCEPT !.tag = c.tag, !.failure = TRUE, !.conflict = TRUE]

\* The answer to the queue's save: a PUT that failed leaves its message.
HearSave(w) ==
    LET c == call[w]["save"]
        answered == IF c.pc = "error" THEN [reader[w] EXCEPT !.failure = TRUE]
                    ELSE Answered(reader[w], c)
    IN
    /\ c.pc \in {"ok", "stale", "error"} /\ c.heard
    /\ reader' = [reader EXCEPT ![w] = [answered EXCEPT !.saving = @ - 1]]
    /\ Moves(w, "save", Idle)
    /\ UNCHANGED <<stored, writes, lock, awaiting, drawn, given, restarts>>

\* MUTANT: keepMine counts as a queued save when it ends.
HearKeepCounted(w, k) ==
    LET c == call[w][k] IN
    /\ c.pc \in {"ok", "stale", "error"} /\ c.heard
    /\ reader' = [reader EXCEPT ![w].saving = @ - 1]
    /\ Moves(w, k, Idle)
    /\ UNCHANGED <<stored, writes, lock, awaiting, drawn, given, restarts>>

\* The answer to keepMine: a failed one is only shown.
HearKeep(w, k) ==
    LET c == call[w][k] IN
    /\ c.pc \in {"ok", "stale", "error"} /\ c.heard
    /\ reader' = IF c.pc = "error" THEN reader
                 ELSE [reader EXCEPT ![w] = Answered(@, c)]
    /\ Moves(w, k, Idle)
    /\ UNCHANGED <<stored, writes, lock, awaiting, drawn, given, restarts>>

\* An answer to a storage the window has discarded changes nothing.
Ignore(w, c) ==
    /\ call[w][c].pc \in {"ok", "stale", "error"} /\ ~call[w][c].heard
    /\ Moves(w, c, Idle)
    /\ UNCHANGED <<stored, writes, lock, awaiting, reader, drawn, given, restarts>>

\* "Discard my copy": the storage is disposed of, its queue ends with it, and
\* a PUT on its way is no longer its window's; the stored PDF opens again.
Discard(w) ==
    /\ reader[w].at = "open" /\ reader[w].conflict
    /\ reader' = [reader EXCEPT ![w].at = "loading", ![w].pending = FALSE,
                                ![w].saving = 0, ![w].settling = FALSE]
    /\ call' = [call EXCEPT ![w] = [c \in Calls |->
                 IF @[c].pc = "export" THEN Idle
                 ELSE IF @[c].pc = "idle" THEN @[c] ELSE [@[c] EXCEPT !.heard = FALSE]]]
    /\ given' = given \cup (reader[w].doc.edits \ stored.edits)
    /\ UNCHANGED <<stored, writes, lock, awaiting, drawn, restarts>>

\* load() answers the stored bytes with their entity tag.
Load(w) ==
    /\ reader[w].at = "loading"
    /\ reader' = [reader EXCEPT ![w] = Loaded(stored)]
    /\ UNCHANGED <<stored, writes, lock, awaiting, call, drawn, given, restarts>>

\* The user closes the tab: settle() waits for its saves.
Close(w) ==
    /\ reader[w].at = "open" /\ ~reader[w].settling
    /\ reader' = [reader EXCEPT ![w].settling = TRUE]
    /\ UNCHANGED <<stored, writes, lock, awaiting, call, drawn, given, restarts>>

\* No save is left: settle() rejects while one failed or a conflict is open,
\* and the PDF leaves the window otherwise.
Settled(w) ==
    /\ reader[w].settling /\ ~reader[w].pending /\ reader[w].saving = 0
    /\ reader' = IF reader[w].failure \/ reader[w].conflict
                 THEN [reader EXCEPT ![w].settling = FALSE]
                 ELSE [reader EXCEPT ![w].settling = FALSE, ![w].at = "closed"]
    /\ UNCHANGED <<stored, writes, lock, awaiting, call, drawn, given, restarts>>

-----------------------------------------------------------------------------
(* The server.                                                             *)

\* The stored file differs from what BASE names only by metadata written since.
OnlyMetadataSince(base) ==
    /\ writes # None
    /\ writes.stored = stored
    /\ base \in writes.bases

\* MUTANT: the bases of earlier writes stay, also those of replaced bytes.
MetadataWrittenSinceEver(base, after) ==
    [stored |-> after,
     bases |-> {base} \cup IF writes # None THEN writes.bases ELSE {}]

\* metadata_writes once AFTER is BASE with metadata written into it.
MetadataWritten(base, after) ==
    [stored |-> after,
     bases |-> {base} \cup
       IF writes # None /\ writes.stored = base THEN writes.bases ELSE {}]

\* MUTANT: a save made before the metadata was written is placed as it came.
PlacedAsSent(bytes, rebased) == bytes

\* What a save of BYTES puts in place: with REBASED, the metadata of the
\* stored PDF is written into it again.
Placed(bytes, rebased) ==
    IF rebased THEN [bytes EXCEPT !.meta = stored.meta] ELSE bytes

\* Store::replace under the key's lock: a save made from other bytes answers
\* 412 with the tag of the stored ones.
Admit(w, c) ==
    LET put == call[w][c]
        rebased == stored # put.tag
    IN
    /\ put.pc = "sent" /\ lock = None
    /\ IF rebased /\ ~OnlyMetadataSince(put.tag)
       THEN /\ Moves(w, c, [put EXCEPT !.pc = "stale", !.tag = stored])
            /\ UNCHANGED lock
       ELSE /\ Moves(w, c, [put EXCEPT !.pc = "admitted", !.rebased = rebased])
            /\ lock' = <<w, c>>
    /\ UNCHANGED <<stored, writes, awaiting, reader, drawn, given, restarts>>

\* The save lands by rename.  An edit of another window that a keepMine's copy
\* does not hold is given up by the user's choice.
Commit(w, c) ==
    LET put == call[w][c]
        placed == Placed(put.bytes, put.rebased)
    IN
    /\ put.pc = "admitted"
    /\ stored' = placed
    /\ writes' = IF put.rebased THEN MetadataWritten(put.bytes, placed) ELSE writes
    /\ given' = IF c \in Keeps THEN given \cup (stored.edits \ placed.edits) ELSE given
    /\ lock' = None
    /\ Moves(w, c, [put EXCEPT !.pc = "ok", !.tag = put.bytes])
    /\ UNCHANGED <<awaiting, reader, drawn, restarts>>

\* A save that cannot be read or stored answers an error.
Fail(w, c) ==
    /\ call[w][c].pc = "admitted"
    /\ lock' = None
    /\ Moves(w, c, [call[w][c] EXCEPT !.pc = "error"])
    /\ UNCHANGED <<stored, writes, awaiting, reader, drawn, given, restarts>>

\* Store::record_metadata holds the lock while Python writes META into the PDF.
RecordBegins(meta) ==
    /\ meta \in awaiting /\ lock = None
    /\ lock' = meta
    /\ awaiting' = awaiting \ {meta}
    /\ UNCHANGED <<stored, writes, reader, call, drawn, given, restarts>>

RecordEnds(meta) ==
    LET after == [stored EXCEPT !.meta = meta] IN
    /\ lock = meta
    /\ lock' = None
    /\ stored' = after
    /\ writes' = MetadataWritten(stored, after)
    /\ UNCHANGED <<awaiting, reader, call, drawn, given, restarts>>

\* The app ends and is started again: what it held in memory is gone, and a
\* request that has no answer fails.  A landed save's answer may be on its way.
Restart ==
    /\ restarts < MaxRestarts
    /\ restarts' = restarts + 1
    /\ writes' = None
    /\ lock' = None
    /\ \E lost \in SUBSET {h \in Handlers : call[h[1]][h[2]].pc \in {"ok", "stale"}} :
         call' = [w \in Windows |-> [c \in Calls |->
                    IF call[w][c].pc \in {"sent", "admitted"} \/ <<w, c>> \in lost
                    THEN [call[w][c] EXCEPT !.pc = "error"] ELSE call[w][c]]]
    /\ UNCHANGED <<stored, awaiting, reader, drawn, given>>

-----------------------------------------------------------------------------
Reader(w) ==
    \/ Edit(w) \/ StartSave(w) \/ Save(w) \/ HearSave(w)
    \/ Discard(w) \/ Load(w) \/ Close(w) \/ Settled(w)
    \/ \E k \in Keeps : KeepMine(w, k) \/ HearKeep(w, k)
    \/ \E c \in Calls : Put(w, c) \/ Ignore(w, c)

Replace(w, c) == Admit(w, c) \/ Commit(w, c) \/ Fail(w, c)
Record(meta) == RecordBegins(meta) \/ RecordEnds(meta)

Next ==
    \/ \E w \in Windows : Reader(w)
    \/ \E w \in Windows, c \in Calls : Replace(w, c)
    \/ \E meta \in Metas : Record(meta)
    \/ Restart

Spec == Init /\ [][Next]_vars

\* Timers fire, promises resolve and loads answer; the key lock is a fair
\* mutex, and what holds it ends.  Users and restarts owe nothing.
Fairness ==
    /\ \A w \in Windows :
         /\ WF_vars(StartSave(w)) /\ WF_vars(Save(w)) /\ WF_vars(HearSave(w))
         /\ WF_vars(Load(w)) /\ WF_vars(Settled(w))
         /\ \A k \in Keeps : WF_vars(HearKeep(w, k))
         /\ \A c \in Calls :
              /\ WF_vars(Put(w, c)) /\ SF_vars(Admit(w, c))
              /\ WF_vars(Commit(w, c) \/ Fail(w, c))
    /\ \A meta \in Metas : WF_vars(RecordEnds(meta))

FairSpec == Spec /\ Fairness

-----------------------------------------------------------------------------
Storages ==
    [at : {"open", "loading", "closed"}, doc : Bytes, tag : Bytes, pending : BOOLEAN,
     saving : Nat, conflict : BOOLEAN, failure : BOOLEAN, settling : BOOLEAN]

Puts ==
    [pc : {"idle", "export", "sent", "admitted", "ok", "stale", "error"},
     bytes : Bytes \cup {None}, tag : Bytes \cup {None}, rebased : BOOLEAN, heard : BOOLEAN]

TypeOK ==
    /\ stored \in Bytes
    /\ writes \in [stored : Bytes, bases : SUBSET Bytes] \cup {None}
    /\ lock \in Handlers \cup Metas \cup {None}
    /\ awaiting \in SUBSET Metas
    /\ reader \in [Windows -> Storages]
    /\ call \in [Windows -> [Calls -> Puts]]
    /\ drawn \in SUBSET Edits
    /\ given \in SUBSET Edits
    /\ restarts \in 0 .. MaxRestarts

\* No edit another window stored is dropped from the PDF unless a user chose to
\* save a copy over it: an ordinary save made from older bytes is refused
\* (Store::replace and the conditional PUT of documentStorage.ts).
NoSilentOverwrite == [][stored.edits \ stored'.edits \subseteq given']_vars

\* Metadata recorded in the PDF is undone by no ordinary save, also not by one
\* made from the PDF as it was before (only_metadata_since, metadata_written):
\* only a later metadata write or a user's copy saved over it replaces it.
MetadataNeverUndone ==
    [][stored'.meta # stored.meta =>
         \/ \E meta \in Metas : RecordEnds(meta)
         \/ \E w \in Windows, k \in Keeps : Commit(w, k)]_vars

\* Every edit is in the stored PDF, was given up by a user, or is in a window
\* that still says so: settle(), the close of a tab and the beforeunload
\* question rest on DocumentStorage::unsaved.
NothingLostQuietly ==
    \A e \in drawn \ (stored.edits \cup given) :
        \E w \in Windows :
            reader[w].at = "open" /\ e \in reader[w].doc.edits /\ Unsaved(w)

\* A tab that is asked to close comes to be closed, or is refused the close:
\* the settle loop ends however its saves come out.
SettleEnds == \A w \in Windows : reader[w].settling ~> ~reader[w].settling
=============================================================================
