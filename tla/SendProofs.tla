---------------------------- MODULE SendProofs ----------------------------
(***************************************************************************)
(* Theorems about Send, for any number of requests, notes, annotations,    *)
(* disconnects and crashes.                                                *)
(***************************************************************************)
EXTENDS Send, FiniteSetTheorems, TLAPS

-----------------------------------------------------------------------------
(* The inductive invariant, of each request R.                             *)

Stepping == {"step", "count", "attach", "replace"}

\* The locks are held by the request that works under them, but for the file
\* work of one that was cut off.
OwnersAt(r) ==
    /\ r \in Serialized /\ pc[r] \notin {"idle", "ended"} =>
          sending = r \/ (r \in Deletes /\ pc[r] \in Placing /\ lock # r)
    /\ pc[r] \in Placing => lock = r \/ r \in CutOff

\* Until file work meets, one request's is under way.
Apart == ~clashed =>
    \A q, s \in Requests : pc[q] \in Placing /\ pc[s] \in Placing => q = s

\* Which request can be where.
RolesAt(r) ==
    /\ r \in Runs =>
          /\ pc[r] \in {"idle", "plugin", "place", "ended"} \cup (Placing \ {"trash"})
          /\ local[r] = Fresh
    /\ r \in PdfOnlys => pc[r] \notin {"require", "take"}
    /\ pc[r] \in {"chain", "plugin", "place", "artifacts", "markdown"} =>
          r \in Extracts \cup Runs
    /\ pc[r] \in {"clear", "clearArtifacts"} => local[r].leaving \/ r \in Extracts \cup Runs
    /\ pc[r] \in {"remove", "wait"} => local[r].leaving
    /\ local[r].chain => r \in Extracts

\* What a request that places an extraction, or removes one, has done so far.
BesideAt(r) == ~clashed =>
    /\ pc[r] \in Placing \ {"clear"} => markdown = None
    /\ pc[r] = "artifacts" => artifacts = None
    /\ pc[r] = "markdown" => artifacts = IF r \in WithArtifacts THEN r ELSE None

\* A send goes by the filing's own record, and owes nothing that says.
FitsAt(r) ==
    /\ pc[r] \in {"save"} \cup Stepping => local[r].record # None
    /\ pc[r] \in {"ready", "import", "standalone"} \cup Stepping => local[r].record = record
    /\ pc[r] \in {"import", "standalone", "check"} => local[r].record = None
    /\ pc[r] = "ready" /\ r \in PdfOnlys => local[r].record = None
    /\ local[r].record # None => local[r].todo \cap local[r].record.steps = {}
    /\ pc[r] \in {"check", "standalone"} => local[r].todo = {}
    /\ pc[r] = "ready" /\ r \in PdfOnlys => local[r].todo = {}
    /\ pc[r] \in Stepping \ {"step"} => "pdf" \in local[r].todo

\* The PDF a send counts is the only one, and not alone when it is replaced.
PdfAt(r) ==
    /\ pc[r] \in {"count", "attach"} => Live = {local[r].old} \ {None}
    /\ pc[r] = "count" => local[r].old # None
    /\ pc[r] = "replace" => \E p \in Live : p # local[r].old

\* Zotero holds what a record says, and a standalone PDF is recorded as sent.
TrueRecord(rec) ==
    rec # None =>
        /\ \A s \in rec.steps :
              IF s = "pdf" /\ rec.method = "item" THEN Live # {} ELSE did[s] > 0
        /\ rec.method = "standalone" => "pdf" \in rec.steps

IInv ==
    /\ TypeOK
    /\ MarkdownComplete /\ Apart
    /\ TrueRecord(record)
    /\ \A r \in Requests :
          /\ OwnersAt(r) /\ RolesAt(r) /\ BesideAt(r) /\ FitsAt(r) /\ PdfAt(r)
          /\ TrueRecord(local[r].record)

-----------------------------------------------------------------------------
(* What one step of a request may do.                                      *)

\* The parts of TypeOK: where the requests stand, the locks, and the rest.
Standing ==
    /\ pc \in [Requests -> Points]
    /\ local \in [Requests -> Locals]
    /\ \A r \in Requests : local[r].record = None => pc[r] \notin {"save", "step"}

LocksTyped == sending \in Serialized \cup {None} /\ lock \in Requests \cup {None}

FilesTyped ==
    /\ stored \in BOOLEAN /\ marks \in Marks
    /\ markdown \in Extracts \cup Runs \cup {None}
    /\ artifacts \in WithArtifacts \cup {None}

FilingTyped ==
    /\ notes \subseteq added /\ added \subseteq Notes /\ late \subseteq Notes \cup {"markdown"}
    /\ record \in Records \cup {None} /\ kept \in BOOLEAN

ZoteroTyped ==
    /\ item \in BOOLEAN
    /\ pdfs \in [Pdfs -> Marks \cup {None}]
    /\ did \in [Steps -> Nat] /\ mailed \in {"no", "yes", "again"}

\* The requests but R stand where they stood.
OthersStay(r) == \A q \in Requests \ {r} : pc'[q] = pc[q] /\ local'[q] = local[q]

\* R begins file work only where nobody's is under way, unless they clash.
Enters(r) ==
    pc'[r] \in Placing /\ pc[r] \notin Placing =>
        clashed' \/ \A q \in Requests : pc[q] \notin Placing

\* The key's lock is taken and freed for R alone.
LocksWell(r) == lock' = lock \/ (lock \in {None, r} /\ lock' \in {None, r})

\* R moves; it takes and frees the locks for itself alone.
MovesWell(r) ==
    /\ Standing' /\ LocksTyped' /\ OthersStay(r) /\ Enters(r) /\ LocksWell(r)
    /\ sending \notin {None, r} => sending' = sending
    /\ OwnersAt(r)' /\ RolesAt(r)'

\* It changes the files while it places or removes.
FilesWell(r) ==
    /\ FilesTyped' /\ MarkdownComplete' /\ BesideAt(r)'
    /\ UNCHANGED <<markdown, artifacts>> \/ pc[r] \in Placing

\* It changes the record under the send lock, and works by it.
FilingWell(r) ==
    /\ FilingTyped' /\ FitsAt(r)'
    /\ TrueRecord(record)' /\ TrueRecord(local[r].record)'
    /\ UNCHANGED record \/ (r \in Serialized /\ sending = r)

\* Zotero only gains: nothing made is undone, and a PDF stays on the item.
Gains == (\A s \in Steps : did[s] > 0 => did'[s] > 0) /\ (Live # {} => Live' # {})

ZoteroWell(r) ==
    /\ ZoteroTyped' /\ Gains /\ PdfAt(r)'
    /\ UNCHANGED pdfs \/ (r \in Serialized /\ sending = r)

LEMMA StillTrue ==
    ASSUME NEW rec \in Records \cup {None}, TrueRecord(rec), Gains
    PROVE  rec # None =>
             /\ \A s \in rec.steps :
                   IF s = "pdf" /\ rec.method = "item" THEN Live' # {} ELSE did'[s] > 0
             /\ rec.method = "standalone" => "pdf" \in rec.steps
  BY DEF TrueRecord, Gains, Records

LEMMA ClashIInv ==
    ASSUME IInv, NEW r \in Requests, MovesWell(r), FilesWell(r), FilingWell(r), ZoteroWell(r),
           clashed' \in BOOLEAN, clashed => clashed'
    PROVE  IInv'
  <1>1. TypeOK'
    BY DEF IInv, TypeOK, MovesWell, FilesWell, FilingWell, ZoteroWell,
           Standing, LocksTyped, FilesTyped, FilingTyped, ZoteroTyped
  <1>2. ASSUME NEW q \in Requests, q # r
        PROVE  OwnersAt(q)' /\ RolesAt(q)' /\ BesideAt(q)' /\ FitsAt(q)' /\ PdfAt(q)'
    <2>1. pc'[q] = pc[q] /\ local'[q] = local[q]
      BY <1>2 DEF MovesWell, OthersStay
    <2>2. OwnersAt(q) /\ RolesAt(q) /\ BesideAt(q) /\ FitsAt(q) /\ PdfAt(q)
      BY DEF IInv
    <2>3. OwnersAt(q)'
      BY <1>2, <2>1, <2>2, RequestsAssumption
         DEF OwnersAt, MovesWell, LocksWell, Requests, Serialized
    <2>4. RolesAt(q)'
      BY <2>1, <2>2 DEF RolesAt
    <2>5. BesideAt(q)'
      BY <1>2, <2>1, <2>2 DEF BesideAt, FilesWell, IInv, Apart, Placing
    <2>6. FitsAt(q)'
      <3>1. CASE record' = record
        BY <2>1, <2>2, <3>1 DEF FitsAt
      <3>2. CASE r \in Serialized /\ sending = r
        BY <1>2, <2>1, <2>2, <3>2
           DEF FitsAt, OwnersAt, RolesAt, Placing, Stepping, Requests
      <3> QED BY <3>1, <3>2 DEF FilingWell
    <2>7. PdfAt(q)'
      BY <1>2, <2>1, <2>2
         DEF PdfAt, ZoteroWell, Live, OwnersAt, RolesAt, Placing, Requests
    <2> QED BY <2>3, <2>4, <2>5, <2>6, <2>7
  <1>3. ASSUME NEW q \in Requests, q # r
        PROVE  TrueRecord(local[q].record)'
    <2>1. local'[q] = local[q] /\ TrueRecord(local[q].record)
      BY <1>3 DEF MovesWell, OthersStay, IInv
    <2>2. local[q].record \in Records \cup {None}
      BY DEF IInv, TypeOK, Locals
    <2> QED BY <2>1, <2>2, StillTrue DEF ZoteroWell, TrueRecord
  <1>4. Apart'
    <2> SUFFICES ASSUME ~clashed', NEW q \in Requests, NEW s \in Requests,
                        pc'[q] \in Placing, pc'[s] \in Placing, q # s
                 PROVE  FALSE
      BY DEF Apart
    <2>1. ~clashed /\ Apart /\ OthersStay(r) /\ Enters(r)
      BY DEF IInv, MovesWell
    <2>2. \A p \in Requests \ {r} : pc'[p] = pc[p]
      BY <2>1 DEF OthersStay
    <2> QED BY <2>1, <2>2 DEF Apart, Enters
  <1> QED BY <1>1, <1>2, <1>3, <1>4 DEF IInv, MovesWell, FilesWell, FilingWell, ZoteroWell

LEMMA StepIInv ==
    ASSUME IInv, NEW r \in Requests, MovesWell(r), FilesWell(r), FilingWell(r), ZoteroWell(r),
           clashed' = clashed
    PROVE  IInv'
  BY ClashIInv DEF IInv, TypeOK

LEMMA FreshTyped ==
    /\ Fresh \in Locals
    /\ Fresh.record = None /\ Fresh.todo = {} /\ ~Fresh.chain /\ ~Fresh.leaving
  BY DEF Fresh, Locals

\* R goes to TO and holds NEW.
LEMMA HoldsEffect ==
    ASSUME TypeOK, NEW r \in Requests, NEW to \in Points, NEW new \in Locals,
           Holds(r, to, new), new.record = None => to \notin {"save", "step"}
    PROVE  /\ Standing' /\ OthersStay(r)
           /\ pc'[r] = to /\ local'[r] = new
  BY DEF TypeOK, Standing, OthersStay, Holds, Go

LEMMA GoEffect ==
    ASSUME TypeOK, NEW r \in Requests, NEW to \in Points, Go(r, to), local' = local,
           local[r].record = None => to \notin {"save", "step"}
    PROVE  /\ Standing' /\ OthersStay(r)
           /\ pc'[r] = to /\ local'[r] = local[r]
  BY DEF TypeOK, Standing, OthersStay, Go

LEMMA EndEffect ==
    ASSUME IInv, NEW r \in Requests, End(r)
    PROVE  /\ MovesWell(r) /\ BesideAt(r)' /\ FitsAt(r)' /\ PdfAt(r)'
           /\ TrueRecord(local[r].record)'
  <1>1. Holds(r, "ended", Fresh)
    BY DEF End, Holds
  <1>2. Standing' /\ OthersStay(r) /\ pc'[r] = "ended" /\ local'[r] = Fresh
    BY <1>1, HoldsEffect, FreshTyped DEF IInv, Points
  <1>3. /\ LocksTyped' /\ LocksWell(r)
        /\ sending \notin {None, r} => sending' = sending
    BY DEF End, IInv, TypeOK, LocksTyped, LocksWell
  <1>4. OwnersAt(r)' /\ RolesAt(r)' /\ Enters(r)
    BY <1>2, FreshTyped DEF OwnersAt, RolesAt, Enters, Placing
  <1>5. BesideAt(r)' /\ FitsAt(r)' /\ PdfAt(r)' /\ TrueRecord(local[r].record)'
    BY <1>2, FreshTyped DEF BesideAt, FitsAt, PdfAt, TrueRecord, Placing, Stepping
  <1> QED BY <1>2, <1>3, <1>4, <1>5 DEF MovesWell

-----------------------------------------------------------------------------
(* The steps that ask nothing of Zotero.                                   *)

LEMMA SameFiles ==
    ASSUME IInv, UNCHANGED files, clashed => clashed'
    PROVE  FilesTyped' /\ MarkdownComplete' /\ UNCHANGED <<markdown, artifacts>>
  BY DEF IInv, TypeOK, FilesTyped, MarkdownComplete, files

LEMMA SameFiling ==
    ASSUME IInv, UNCHANGED filing
    PROVE  FilingTyped' /\ record' = record
  BY DEF IInv, TypeOK, FilingTyped, filing

LEMMA SameZotero ==
    ASSUME IInv, UNCHANGED zotero
    PROVE  /\ ZoteroTyped' /\ Gains /\ UNCHANGED pdfs
           /\ (TrueRecord(record) /\ UNCHANGED record => TrueRecord(record)')
  BY DEF IInv, TypeOK, ZoteroTyped, Gains, Live, TrueRecord, zotero

\* R ends, or goes to TO, with the record as it is.
LEMMA EndStep ==
    ASSUME IInv, NEW r \in Requests, End(r), UNCHANGED <<zotero, record, clashed>>,
           FilesTyped', MarkdownComplete', UNCHANGED <<markdown, artifacts>> \/ pc[r] \in Placing,
           FilingTyped'
    PROVE  IInv'
  BY EndEffect, SameZotero, StepIInv DEF IInv, FilesWell, FilingWell, ZoteroWell

LEMMA GoStep ==
    ASSUME IInv, NEW r \in Requests, NEW to \in Points, Go(r, to),
           UNCHANGED <<local, zotero, record, sending>>,
           clashed' \in BOOLEAN, clashed => clashed',
           local[r].record = None => to \notin {"save", "step"},
           LocksTyped', LocksWell(r), Enters(r),
           FilesTyped', MarkdownComplete', UNCHANGED <<markdown, artifacts>> \/ pc[r] \in Placing,
           FilingTyped',
           OwnersAt(r)', RolesAt(r)', BesideAt(r)', FitsAt(r)', PdfAt(r)'
    PROVE  IInv'
  <1>1. MovesWell(r) /\ local'[r] = local[r]
    BY GoEffect DEF IInv, MovesWell
  <1>2. TrueRecord(local[r].record)'
    BY <1>1, SameZotero, StillTrue DEF IInv, TypeOK, Locals, TrueRecord
  <1> QED BY <1>1, <1>2, SameZotero, ClashIInv DEF IInv, FilesWell, FilingWell, ZoteroWell

\* R stays out of file work, and leaves the locks alone.
LEMMA OutStep ==
    ASSUME IInv, NEW r \in Requests, pc'[r] \notin Placing,
           UNCHANGED <<sending, lock, clashed>>
    PROVE  /\ LocksTyped' /\ LocksWell(r) /\ Enters(r)
           /\ clashed' \in BOOLEAN /\ (clashed => clashed')
  BY DEF IInv, TypeOK, LocksTyped, LocksWell, Enters

LEMMA ReadyStep ==
    ASSUME IInv, NEW r \in Requests, Ready(r)
    PROVE  IInv'
  <1>0. UNCHANGED <<files, filing, zotero, clashed>> /\ pc[r] = "ready"
    BY DEF Ready
  <1>1. CASE End(r)
    BY <1>0, <1>1, SameFiles, SameFiling, EndStep
  <1>2. ASSUME NEW to \in {"standalone", "import", "save"}, Go(r, to), UNCHANGED <<local, locks>>,
               r \in PdfOnlys <=> to = "standalone",
               r \notin PdfOnlys => (to = "import" <=> local[r].record = None)
        PROVE  IInv'
    <2>1. pc'[r] = to /\ local'[r] = local[r] /\ UNCHANGED <<sending, lock>> /\ to \in Points
      BY <1>2 DEF IInv, TypeOK, Go, Points, locks
    <2>2. OwnersAt(r)' /\ RolesAt(r)' /\ LocksTyped'
      BY <1>0, <1>2, <2>1 DEF IInv, TypeOK, LocksTyped, OwnersAt, RolesAt, Placing
    <2>3. BesideAt(r)' /\ FitsAt(r)' /\ PdfAt(r)' /\ pc'[r] \notin Placing
      BY <1>0, <1>2, <2>1, SameFiling DEF IInv, BesideAt, FitsAt, PdfAt, Placing, Stepping
    <2> QED BY <1>0, <1>2, <2>1, <2>2, <2>3, SameFiles, SameFiling, OutStep, GoStep
  <1>3. CASE r \in PdfOnlys /\ Go(r, "standalone") /\ UNCHANGED <<local, locks>>
    BY <1>2, <1>3
  <1>4. CASE /\ r \notin PdfOnlys /\ local[r].record = None /\ Go(r, "import")
             /\ UNCHANGED <<local, locks>>
    BY <1>2, <1>4
  <1>5. CASE /\ r \notin PdfOnlys /\ local[r].record # None /\ Go(r, "save")
             /\ UNCHANGED <<local, locks>>
    BY <1>2, <1>5
  <1> QED BY <1>1, <1>3, <1>4, <1>5 DEF Ready

LEMMA FinishedStep ==
    ASSUME IInv, NEW r \in Requests, Finished(r)
    PROVE  IInv'
  <1> DEFINE to == IF local[r].chain THEN "chain" ELSE "leave"
  <1>1. /\ UNCHANGED <<files, filing, zotero, clashed, local, sending, lock>>
        /\ pc[r] = "step" /\ Go(r, to) /\ to \in Points /\ to \notin {"save", "step"}
    BY DEF Finished, Points, locks
  <1>2. pc'[r] = to /\ local'[r] = local[r]
    BY <1>1 DEF IInv, TypeOK, Go
  <1>3. OwnersAt(r)' /\ RolesAt(r)' /\ LocksTyped'
    BY <1>1, <1>2 DEF IInv, TypeOK, LocksTyped, OwnersAt, RolesAt, Placing
  <1>4. BesideAt(r)' /\ FitsAt(r)' /\ PdfAt(r)' /\ pc'[r] \notin Placing
    BY <1>1, <1>2 DEF IInv, BesideAt, FitsAt, PdfAt, Placing, Stepping
  <1> HIDE DEF to
  <1> QED BY <1>1, <1>2, <1>3, <1>4, SameFiles, SameFiling, OutStep, GoStep

LEMMA RunStep ==
    ASSUME IInv, NEW r \in Requests, Run(r)
    PROVE  IInv'
  <1>1. UNCHANGED <<files, filing, zotero, clashed>> /\ r \in Runs
    BY DEF Run
  <1>2. CASE End(r)
    BY <1>1, <1>2, SameFiles, SameFiling, EndStep
  <1>3. CASE Go(r, "plugin") /\ UNCHANGED <<local, locks>>
    <2>1. pc'[r] = "plugin" /\ local'[r] = local[r] /\ UNCHANGED <<sending, lock>>
      BY <1>3 DEF IInv, TypeOK, Go, locks
    <2>2. OwnersAt(r)' /\ RolesAt(r)' /\ LocksTyped'
      BY <1>1, <2>1, RequestsAssumption
         DEF IInv, TypeOK, LocksTyped, OwnersAt, RolesAt, Placing, Serialized, Senders
    <2>3. BesideAt(r)' /\ FitsAt(r)' /\ PdfAt(r)' /\ pc'[r] \notin Placing
      BY <1>1, <2>1, FreshTyped DEF IInv, RolesAt, BesideAt, FitsAt, PdfAt, Placing, Stepping
    <2> QED BY <1>1, <1>3, <2>1, <2>2, <2>3, SameFiles, SameFiling, OutStep, GoStep DEF Points
  <1> QED BY <1>2, <1>3 DEF Run

LEMMA PluginStep ==
    ASSUME IInv, NEW r \in Requests, Plugin(r)
    PROVE  IInv'
  <1>0. UNCHANGED <<files, filing, zotero, clashed>> /\ pc[r] = "plugin"
    BY DEF Plugin
  <1>1. CASE End(r)
    BY <1>0, <1>1, SameFiles, SameFiling, EndStep
  <1>2. ASSUME NEW to \in {"leave", "place"}, Go(r, to), UNCHANGED <<local, locks>>,
               to = "leave" => r \in Extracts
        PROVE  IInv'
    <2>1. pc'[r] = to /\ local'[r] = local[r] /\ UNCHANGED <<sending, lock>> /\ to \in Points
      BY <1>2 DEF IInv, TypeOK, Go, Points, locks
    <2>2. OwnersAt(r)' /\ RolesAt(r)' /\ LocksTyped'
      BY <1>0, <1>2, <2>1, RequestsAssumption
         DEF IInv, TypeOK, LocksTyped, OwnersAt, RolesAt, Placing
    <2>3. BesideAt(r)' /\ FitsAt(r)' /\ PdfAt(r)' /\ pc'[r] \notin Placing
      BY <1>0, <2>1 DEF IInv, BesideAt, FitsAt, PdfAt, Placing, Stepping
    <2> QED BY <1>0, <1>2, <2>1, <2>2, <2>3, SameFiles, SameFiling, OutStep, GoStep
  <1> QED BY <1>1, <1>2 DEF Plugin

LEMMA LockStep ==
    ASSUME IInv, NEW r \in Requests, Lock(r)
    PROVE  IInv'
  <1>1. /\ UNCHANGED <<files, filing, zotero, local, sending>>
        /\ pc[r] \in {"place", "wait"} /\ Go(r, "clear") /\ lock = None /\ lock' = r
        /\ clashed' = (clashed \/ \E q \in Requests : Adrift(q))
    BY DEF Lock
  <1>2. pc'[r] = "clear" /\ local'[r] = local[r]
    BY <1>1 DEF IInv, TypeOK, Go
  <1>3. OwnersAt(r)' /\ RolesAt(r)' /\ LocksTyped' /\ LocksWell(r)
    BY <1>1, <1>2 DEF IInv, TypeOK, LocksTyped, LocksWell, OwnersAt, RolesAt, Placing
  <1>4. BesideAt(r)' /\ FitsAt(r)' /\ PdfAt(r)'
    BY <1>1, <1>2 DEF IInv, BesideAt, FitsAt, PdfAt, Placing, Stepping
  <1>5. Enters(r) /\ clashed' \in BOOLEAN /\ (clashed => clashed')
    BY <1>1, RequestsAssumption DEF IInv, TypeOK, Enters, Adrift
  <1> QED BY <1>1, <1>2, <1>3, <1>4, <1>5, SameFiles, SameFiling, GoStep DEF Points

LEMMA RemoveStep ==
    ASSUME IInv, NEW r \in Requests, Remove(r)
    PROVE  IInv'
  <1>1. UNCHANGED <<files, filing, zotero, clashed>> /\ pc[r] = "remove"
    BY DEF Remove
  <1>2. CASE End(r)
    BY <1>1, <1>2, SameFiles, SameFiling, EndStep
  <1>3. CASE Go(r, "wait") /\ UNCHANGED <<local, locks>>
    <2>1. pc'[r] = "wait" /\ local'[r] = local[r] /\ UNCHANGED <<sending, lock>>
      BY <1>3 DEF IInv, TypeOK, Go, locks
    <2>2. OwnersAt(r)' /\ RolesAt(r)'
      BY <1>1, <2>1 DEF IInv, OwnersAt, RolesAt, Placing
    <2>3. BesideAt(r)' /\ FitsAt(r)' /\ PdfAt(r)' /\ pc'[r] \notin Placing
      BY <1>1, <2>1 DEF IInv, BesideAt, FitsAt, PdfAt, Placing, Stepping
    <2> QED BY <1>1, <1>3, <2>1, <2>2, <2>3, SameFiles, SameFiling, OutStep, GoStep DEF Points
  <1> QED BY <1>2, <1>3 DEF Remove

\* The record is written while the send lock is held, as the request has it.
LEMMA SaveStep ==
    ASSUME IInv, NEW r \in Requests, Save(r)
    PROVE  IInv'
  <1>0. UNCHANGED <<files, zotero, clashed>> /\ pc[r] = "save"
    BY DEF Save
  <1>1. CASE End(r) /\ UNCHANGED record
    <2>1. FilingTyped'
      BY <1>1 DEF Save, IInv, TypeOK, FilingTyped
    <2> QED BY <1>0, <1>1, <2>1, SameFiles, EndStep
  <1>2. CASE record' = local[r].record /\ Go(r, "step") /\ UNCHANGED <<local, locks>>
    <2>1. /\ r \in Serialized /\ sending = r
          /\ local[r].record # None /\ local[r].record \in Records
      BY <1>0 DEF IInv, TypeOK, Locals, OwnersAt, RolesAt, FitsAt, Placing, Requests
    <2>2. Standing' /\ OthersStay(r) /\ pc'[r] = "step" /\ local'[r] = local[r]
      BY <1>2, <2>1, GoEffect DEF IInv, Points
    <2>3. MovesWell(r)
      BY <1>0, <1>2, <2>1, <2>2
         DEF IInv, TypeOK, MovesWell, LocksWell, Enters, LocksTyped, OwnersAt, RolesAt, Placing, locks
    <2>4. BesideAt(r)' /\ PdfAt(r)' /\ FitsAt(r)'
      BY <1>0, <1>2, <2>1, <2>2 DEF IInv, BesideAt, PdfAt, FitsAt, Placing, Stepping
    <2>5. TrueRecord(local[r].record)' /\ TrueRecord(record)'
      BY <1>0, <1>2, <2>1, <2>2, SameZotero, StillTrue DEF IInv, TrueRecord
    <2>6. FilingTyped'
      BY <1>2, <2>1 DEF Save, IInv, TypeOK, FilingTyped
    <2> QED BY <1>0, <2>1, <2>3, <2>4, <2>5, <2>6, SameFiles, SameZotero, StepIInv
            DEF FilesWell, FilingWell, ZoteroWell
  <1> QED BY <1>1, <1>2 DEF Save

\* What the steps of the file work have in common: R goes to TO, and keeps its
\* locks or has freed the key's.
LEMMA PlacingStep ==
    ASSUME IInv, NEW r \in Requests, pc[r] \in Placing, NEW to \in Points, Go(r, to),
           UNCHANGED <<local, zotero, record, sending, clashed>>, to \notin {"save", "step"},
           IF to \in Placing THEN lock' = lock ELSE lock = r /\ lock' = None,
           FilesTyped', MarkdownComplete', FilingTyped',
           RolesAt(r)', BesideAt(r)',
           to \notin {"check", "ready", "import", "standalone"} \cup Stepping
    PROVE  IInv'
  <1>1. pc'[r] = to /\ local'[r] = local[r]
    BY DEF IInv, TypeOK, Go
  <1>2. pc[r] \notin {"idle", "ended"}
    BY DEF Placing
  <1>3. OwnersAt(r)' /\ LocksTyped' /\ LocksWell(r) /\ Enters(r)
    BY <1>1, <1>2 DEF IInv, TypeOK, OwnersAt, LocksTyped, LocksWell, Enters
  <1>4. FitsAt(r)' /\ PdfAt(r)'
    BY <1>1 DEF IInv, FitsAt, PdfAt, Stepping
  <1>5. clashed' \in BOOLEAN /\ (clashed => clashed')
    BY DEF IInv, TypeOK
  <1> QED BY <1>3, <1>4, <1>5, GoStep

LEMMA ClearMarkdownStep ==
    ASSUME IInv, NEW r \in Requests, ClearMarkdown(r)
    PROVE  IInv'
  <1>0. /\ UNCHANGED <<stored, marks, artifacts, filing, zotero, clashed>>
        /\ pc[r] = "clear"
    BY DEF ClearMarkdown
  <1>1. CASE End(r) /\ UNCHANGED markdown
    BY <1>0, <1>1, SameFiles, SameFiling, EndStep DEF files
  <1>2. CASE /\ markdown' \in Cleared(markdown) /\ Go(r, "clearArtifacts")
             /\ UNCHANGED <<local, locks>>
    <2>1. pc'[r] = "clearArtifacts" /\ local'[r] = local[r] /\ UNCHANGED <<sending, lock>>
      BY <1>2 DEF IInv, TypeOK, Go, locks
    <2>2. FilesTyped' /\ MarkdownComplete' /\ BesideAt(r)'
      BY <1>0, <1>2, <2>1 DEF IInv, TypeOK, FilesTyped, MarkdownComplete, BesideAt, Cleared
    <2>3. RolesAt(r)'
      BY <1>0, <2>1 DEF IInv, RolesAt, Placing
    <2> QED BY <1>0, <1>2, <2>1, <2>2, <2>3, SameFiling, PlacingStep DEF Points, Placing, Stepping
  <1> QED BY <1>1, <1>2 DEF ClearMarkdown

LEMMA ClearArtifactsStep ==
    ASSUME IInv, NEW r \in Requests, ClearArtifacts(r)
    PROVE  IInv'
  <1> DEFINE to == IF local[r].leaving THEN "trash" ELSE "artifacts"
  <1>0. /\ UNCHANGED <<stored, marks, markdown, filing, zotero, clashed>>
        /\ pc[r] = "clearArtifacts" /\ (~clashed => markdown = None)
    BY DEF ClearArtifacts, IInv, BesideAt, Placing
  <1>1. CASE End(r) /\ artifacts' \in {artifacts} \cup Cleared(artifacts)
    <2>1. FilesTyped' /\ MarkdownComplete' /\ pc[r] \in Placing
      BY <1>0, <1>1 DEF IInv, TypeOK, FilesTyped, MarkdownComplete, Cleared, Placing
    <2> QED BY <1>0, <1>1, <2>1, SameFiling, EndStep
  <1>2. CASE artifacts' \in Cleared(artifacts) /\ Go(r, to) /\ UNCHANGED <<local, locks>>
    <2>1. pc'[r] = to /\ local'[r] = local[r] /\ UNCHANGED <<sending, lock>>
      BY <1>2 DEF IInv, TypeOK, Go, locks
    <2>2. FilesTyped' /\ MarkdownComplete' /\ BesideAt(r)'
      BY <1>0, <1>2, <2>1 DEF IInv, TypeOK, FilesTyped, MarkdownComplete, BesideAt, Cleared
    <2>3. RolesAt(r)'
      BY <1>0, <2>1, FreshTyped DEF IInv, RolesAt, Placing
    <2> QED BY <1>0, <1>2, <2>1, <2>2, <2>3, SameFiling, PlacingStep DEF Points, Placing, Stepping
  <1> QED BY <1>1, <1>2 DEF ClearArtifacts

LEMMA MoveArtifactsStep ==
    ASSUME IInv, NEW r \in Requests, MoveArtifacts(r)
    PROVE  IInv'
  <1>0. /\ UNCHANGED <<stored, marks, markdown, filing, zotero, clashed>>
        /\ pc[r] = "artifacts" /\ (~clashed => markdown = None /\ artifacts = None)
    BY DEF MoveArtifacts, IInv, BesideAt, Placing
  <1>1. CASE End(r) /\ UNCHANGED artifacts
    BY <1>0, <1>1, SameFiles, SameFiling, EndStep DEF files
  <1>2. CASE /\ artifacts' = IF r \in WithArtifacts THEN r ELSE artifacts
             /\ Go(r, "markdown") /\ UNCHANGED <<local, locks>>
    <2>1. pc'[r] = "markdown" /\ local'[r] = local[r] /\ UNCHANGED <<sending, lock>>
      BY <1>2 DEF IInv, TypeOK, Go, locks
    <2>2. FilesTyped' /\ MarkdownComplete' /\ BesideAt(r)'
      BY <1>0, <1>2, <2>1 DEF IInv, TypeOK, FilesTyped, MarkdownComplete, BesideAt
    <2>3. RolesAt(r)'
      BY <1>0, <2>1 DEF IInv, RolesAt, Placing
    <2> QED BY <1>0, <1>2, <2>1, <2>2, <2>3, SameFiling, PlacingStep DEF Points, Placing, Stepping
  <1> QED BY <1>1, <1>2 DEF MoveArtifacts

\* The Markdown joins the artifacts of its own plugin.
LEMMA MoveMarkdownStep ==
    ASSUME IInv, NEW r \in Requests, MoveMarkdown(r)
    PROVE  IInv'
  <1>0. /\ UNCHANGED <<stored, marks, artifacts, notes, added, record, kept>>
        /\ UNCHANGED <<item, pdfs, did, clashed>>
        /\ pc[r] = "markdown" /\ r \in Extracts \cup Runs
        /\ (~clashed => artifacts = IF r \in WithArtifacts THEN r ELSE None)
    BY DEF MoveMarkdown, IInv, RolesAt, BesideAt, Placing
  <1>1. CASE End(r) /\ UNCHANGED <<markdown, late, mailed>>
    BY <1>0, <1>1, SameFiles, SameFiling, EndStep DEF files, filing, zotero
  <1>2. CASE /\ markdown' = r /\ mailed' = Placed
             /\ IF r \in Runs THEN late' = late \cup {"markdown"} /\ End(r)
                ELSE /\ late' = late \ {"markdown"}
                     /\ Go(r, "require") /\ lock' = None /\ UNCHANGED <<sending, local>>
    <2>1. FilesTyped' /\ MarkdownComplete' /\ FilingTyped'
      BY <1>0, <1>2 DEF IInv, TypeOK, FilesTyped, MarkdownComplete, FilingTyped
    <2>2. ZoteroTyped' /\ Gains /\ UNCHANGED pdfs /\ TrueRecord(record)'
      BY <1>0, <1>2 DEF IInv, TypeOK, ZoteroTyped, Gains, Live, TrueRecord, Placed
    <2>3. MovesWell(r) /\ BesideAt(r)' /\ FitsAt(r)' /\ PdfAt(r)' /\ TrueRecord(local[r].record)'
      <3>1. CASE r \in Runs
        BY <1>2, <3>1, EndEffect
      <3>2. CASE r \notin Runs
        <4>1. r \in Extracts /\ r \notin Deletes /\ r \notin CutOff /\ r \in Serialized
          BY <1>0, <3>2, RequestsAssumption DEF Serialized, Senders
        <4>2. sending = r /\ lock = r
          BY <1>0, <4>1 DEF IInv, OwnersAt, Placing
        <4>3. Standing' /\ OthersStay(r) /\ pc'[r] = "require" /\ local'[r] = local[r]
          BY <1>2, <3>2, GoEffect DEF IInv, Points
        <4>4. LocksTyped' /\ LocksWell(r) /\ Enters(r) /\ OwnersAt(r)' /\ RolesAt(r)'
          BY <1>0, <1>2, <3>2, <4>1, <4>2, <4>3, RequestsAssumption
             DEF IInv, TypeOK, LocksTyped, LocksWell, Enters, OwnersAt, RolesAt, Placing
        <4>5. BesideAt(r)' /\ FitsAt(r)' /\ PdfAt(r)'
          BY <1>0, <4>3 DEF IInv, BesideAt, FitsAt, PdfAt, Placing, Stepping
        <4>6. TrueRecord(local[r].record)'
          BY <2>2, <4>3, StillTrue DEF IInv, TypeOK, Locals, TrueRecord
        <4> QED BY <1>2, <3>2, <4>3, <4>4, <4>5, <4>6 DEF MovesWell
      <3> QED BY <3>1, <3>2
    <2>4. pc[r] \in Placing
      BY <1>0 DEF Placing
    <2> QED BY <1>0, <2>1, <2>2, <2>3, <2>4, StepIInv DEF FilesWell, FilingWell, ZoteroWell
  <1> QED BY <1>0, <1>1, <1>2 DEF MoveMarkdown

LEMMA TrashPdfStep ==
    ASSUME IInv, NEW r \in Requests, TrashPdf(r)
    PROVE  IInv'
  <1>0. /\ UNCHANGED <<marks, markdown, artifacts, filing, zotero, clashed>>
        /\ pc[r] = "trash"
    BY DEF TrashPdf
  <1>1. CASE End(r) /\ stored' \in BOOLEAN
    <2>1. FilesTyped' /\ MarkdownComplete'
      BY <1>0, <1>1 DEF IInv, TypeOK, FilesTyped, MarkdownComplete
    <2> QED BY <1>0, <1>1, <2>1, SameFiling, EndStep
  <1>2. CASE /\ ~Adrift(r) /\ stored' = FALSE /\ Go(r, "drop") /\ lock' = None
             /\ UNCHANGED <<local, sending>>
    <2>1. pc'[r] = "drop" /\ local'[r] = local[r]
      BY <1>2 DEF IInv, TypeOK, Go
    <2>2. FilesTyped' /\ MarkdownComplete' /\ BesideAt(r)'
      BY <1>0, <1>2, <2>1 DEF IInv, TypeOK, FilesTyped, MarkdownComplete, BesideAt, Placing
    <2>3. RolesAt(r)'
      BY <1>0, <2>1 DEF IInv, RolesAt, Placing
    <2>4. lock = r
      BY <1>0, <1>2 DEF Adrift, Placing
    <2> QED BY <1>0, <1>2, <2>1, <2>2, <2>3, <2>4, SameFiling, PlacingStep
            DEF Points, Placing, Stepping
  <1> QED BY <1>1, <1>2 DEF TrashPdf, IInv, TypeOK

\* What is cut off in its file work stands there without its locks.
LEMMA DisconnectStep ==
    ASSUME IInv, NEW r \in Requests, Disconnect(r)
    PROVE  IInv'
  <1>0. UNCHANGED <<files, filing, zotero, clashed>> /\ r \in CutOff
    BY DEF Disconnect
  <1>1. CASE End(r)
    BY <1>0, <1>1, SameFiles, SameFiling, EndStep
  <1>2. CASE /\ pc[r] \in Placing /\ lock = r /\ lock' = None /\ UNCHANGED <<pc, local>>
             /\ sending' = IF sending = r THEN None ELSE sending
    <2>1. r \in Deletes \cup Runs /\ r # None
      BY <1>0, RequestsAssumption
    <2>2. MovesWell(r)
      <3>1. Standing' /\ OthersStay(r) /\ Enters(r) /\ LocksWell(r)
        BY <1>2 DEF IInv, TypeOK, Standing, OthersStay, Enters, LocksWell
      <3>2. LocksTyped' /\ (sending \notin {None, r} => sending' = sending)
        BY <1>2 DEF IInv, TypeOK, LocksTyped
      <3>3. OwnersAt(r)' /\ RolesAt(r)'
        BY <1>0, <1>2, <2>1, RequestsAssumption
           DEF IInv, OwnersAt, RolesAt, Serialized, Senders
      <3> QED BY <3>1, <3>2, <3>3 DEF MovesWell
    <2>3. FilesWell(r)
      BY <1>0, <1>2, SameFiles DEF FilesWell, IInv, BesideAt, files
    <2>4. FilingWell(r) /\ ZoteroWell(r)
      BY <1>0, <1>2, SameFiling, SameZotero
         DEF IInv, FilingWell, ZoteroWell, FitsAt, PdfAt, TrueRecord, Live, zotero
    <2> QED BY <1>0, <2>2, <2>3, <2>4, StepIInv
  <1> QED BY <1>1, <1>2 DEF Disconnect

LEMMA DropFilingStep ==
    ASSUME IInv, NEW r \in Requests, DropFiling(r)
    PROVE  IInv'
  <1>1. UNCHANGED <<files, zotero, clashed>> /\ pc[r] = "drop" /\ End(r)
    BY DEF DropFiling
  <1>2. r \in Serialized /\ sending = r
    BY <1>1 DEF IInv, OwnersAt, RolesAt, Placing, Requests
  <1>3. FilingTyped' /\ TrueRecord(record)'
    BY <1>1 DEF DropFiling, IInv, TypeOK, FilingTyped, TrueRecord, Live, zotero
  <1> QED BY <1>1, <1>2, <1>3, EndEffect, SameFiles, SameZotero, StepIInv
          DEF FilesWell, FilingWell, ZoteroWell

LEMMA CheckStep ==
    ASSUME IInv, NEW r \in Requests, Check(r)
    PROVE  IInv'
  <1>0. /\ FilesTyped' /\ MarkdownComplete' /\ UNCHANGED <<markdown, artifacts>>
        /\ FilingTyped' /\ record' = record /\ TrueRecord(record)'
        /\ ZoteroTyped' /\ Gains /\ UNCHANGED pdfs /\ clashed' = clashed
    BY DEF Check, IInv, TypeOK, FilesTyped, MarkdownComplete, FilingTyped, ZoteroTyped, Gains,
           TrueRecord, Live, files, zotero
  <1>1. CASE Refused(r)
    BY <1>0, <1>1, EndEffect, StepIInv DEF Check, FilesWell, FilingWell, ZoteroWell
  <1>2. CASE ~Refused(r)
    <2> DEFINE to == IF r \in PdfOnlys THEN "ready" ELSE "require"
    <2>1. Go(r, to) /\ local' = local /\ UNCHANGED <<sending, lock>> /\ pc[r] = "check"
      BY <1>2 DEF Check, locks
    <2>2. Standing' /\ OthersStay(r) /\ pc'[r] = to /\ local'[r] = local[r]
      BY <2>1, GoEffect DEF Points, IInv
    <2>3. r \in PdfOnlys => record = None
      BY <1>2, RequestsAssumption DEF Refused
    <2>4. MovesWell(r)
      BY <2>1, <2>2
         DEF MovesWell, LocksWell, Enters, IInv, TypeOK, LocksTyped, OwnersAt, RolesAt, Placing
    <2>5. BesideAt(r)' /\ PdfAt(r)' /\ TrueRecord(local[r].record)'
      BY <2>1, <2>2 DEF BesideAt, PdfAt, Placing, IInv, FitsAt, TrueRecord
    <2>6. FitsAt(r)'
      BY <1>0, <2>1, <2>2, <2>3 DEF FitsAt, Stepping, IInv
    <2> QED BY <1>0, <2>4, <2>5, <2>6, StepIInv DEF FilesWell, FilingWell, ZoteroWell
  <1> QED BY <1>1, <1>2

LEMMA BeginStep ==
    ASSUME IInv, NEW r \in Requests, Begin(r)
    PROVE  IInv'
  <1>0. /\ FilesTyped' /\ MarkdownComplete' /\ UNCHANGED <<markdown, artifacts>>
        /\ FilingTyped' /\ record' = record /\ TrueRecord(record)'
        /\ ZoteroTyped' /\ Gains /\ UNCHANGED pdfs /\ clashed' = clashed
        /\ r \in Serialized
    BY DEF Begin, IInv, TypeOK, FilesTyped, MarkdownComplete, FilingTyped, ZoteroTyped, Gains,
           TrueRecord, Live, files, zotero
  <1>1. CASE ~stored
    BY <1>0, <1>1, EndEffect, StepIInv DEF Begin, FilesWell, FilingWell, ZoteroWell
  <1>2. CASE stored
    <2> DEFINE to == IF r \in Deletes THEN "remove" ELSE "check"
               new == [Fresh EXCEPT !.found = markdown # None, !.leaving = r \in Deletes,
                                    !.chain = r \in Extracts /\ markdown = None]
    <2>1. Holds(r, to, new) /\ sending' = r /\ lock' = lock /\ pc[r] = "idle"
      BY <1>2 DEF Begin
    <2>2. /\ new \in Locals /\ new.record = None /\ new.todo = {}
          /\ (r \in Deletes => new.leaving) /\ (new.chain => r \in Extracts)
      <3> DEFINE found == markdown # None
                 leaving == r \in Deletes
                 chain == r \in Extracts /\ markdown = None
      <3>1. found \in BOOLEAN /\ leaving \in BOOLEAN /\ chain \in BOOLEAN
        OBVIOUS
      <3>2. (r \in Deletes => leaving) /\ (chain => r \in Extracts)
        OBVIOUS
      <3>3. new = [Fresh EXCEPT !.found = found, !.leaving = leaving, !.chain = chain]
        OBVIOUS
      <3> HIDE DEF found, leaving, chain, new
      <3>4. new \in Locals /\ new.record = None /\ new.todo = {}
        BY <3>1, <3>3 DEF Fresh, Locals
      <3>5. new.leaving = leaving /\ new.chain = chain
        BY <3>3 DEF Fresh
      <3> QED BY <3>2, <3>4, <3>5
    <2> HIDE DEF new
    <2>3. Standing' /\ OthersStay(r) /\ pc'[r] = to /\ local'[r] = new
      BY <2>1, <2>2, HoldsEffect DEF Points, IInv
    <2>4. MovesWell(r)
      BY <1>0, <2>1, <2>2, <2>3, RequestsAssumption
         DEF Begin, MovesWell, LocksWell, Enters, IInv, TypeOK, LocksTyped, OwnersAt, RolesAt,
              Placing, Serialized, Senders
    <2>5. BesideAt(r)' /\ PdfAt(r)' /\ FitsAt(r)' /\ TrueRecord(local[r].record)'
      BY <2>2, <2>3 DEF BesideAt, PdfAt, FitsAt, TrueRecord, Placing, Stepping
    <2> QED BY <1>0, <2>4, <2>5, StepIInv DEF FilesWell, FilingWell, ZoteroWell
  <1> QED BY <1>1, <1>2

LEMMA RequireStep ==
    ASSUME IInv, NEW r \in Requests, Require(r)
    PROVE  IInv'
  <1>0. /\ FilesTyped' /\ MarkdownComplete' /\ UNCHANGED <<markdown, artifacts>>
        /\ FilingTyped' /\ record' = record /\ TrueRecord(record)'
        /\ ZoteroTyped' /\ Gains /\ UNCHANGED pdfs /\ clashed' = clashed
    BY DEF Require, IInv, TypeOK, FilesTyped, MarkdownComplete, FilingTyped, ZoteroTyped, Gains,
           TrueRecord, Live, files, zotero
  <1>1. CASE ~stored
    BY <1>0, <1>1, EndEffect, StepIInv DEF Require, FilesWell, FilingWell, ZoteroWell
  <1>2. CASE stored
    <2> DEFINE new == [local[r] EXCEPT !.found = markdown # None]
    <2>1. Holds(r, "take", new) /\ UNCHANGED <<sending, lock>> /\ pc[r] = "require"
      BY <1>2 DEF Require, locks
    <2>2. /\ new \in Locals /\ new.record = local[r].record /\ new.todo = local[r].todo
          /\ new.leaving = local[r].leaving /\ new.chain = local[r].chain
      BY DEF Locals, IInv, TypeOK
    <2> HIDE DEF new
    <2>3. Standing' /\ OthersStay(r) /\ pc'[r] = "take" /\ local'[r] = new
      BY <2>1, <2>2, HoldsEffect DEF Points, IInv
    <2>4. MovesWell(r)
      BY <2>1, <2>2, <2>3
         DEF MovesWell, LocksWell, Enters, IInv, TypeOK, LocksTyped, OwnersAt, RolesAt, Placing
    <2>5. BesideAt(r)' /\ PdfAt(r)' /\ FitsAt(r)'
      BY <2>1, <2>2, <2>3 DEF BesideAt, PdfAt, FitsAt, Placing, Stepping, IInv
    <2>6. TrueRecord(local[r].record)'
      BY <1>0, <2>2, <2>3, StillTrue DEF IInv, TypeOK, Locals, TrueRecord
    <2> QED BY <1>0, <2>4, <2>5, <2>6, StepIInv DEF FilesWell, FilingWell, ZoteroWell
  <1> QED BY <1>1, <1>2

LEMMA TakeStep ==
    ASSUME IInv, NEW r \in Requests, Take(r)
    PROVE  IInv'
  <1>0. /\ FilesTyped' /\ MarkdownComplete' /\ UNCHANGED <<markdown, artifacts>>
        /\ FilingTyped' /\ record' = record /\ TrueRecord(record)'
        /\ ZoteroTyped' /\ Gains /\ UNCHANGED pdfs /\ clashed' = clashed
    BY DEF Take, IInv, TypeOK, FilesTyped, MarkdownComplete, FilingTyped, ZoteroTyped, Gains,
           TrueRecord, Live, files, zotero
  <1> DEFINE known == IF record = None THEN [method |-> "item", steps |-> {}] ELSE record
             owed == PendingSteps(known, local[r].found, notes)
             new == [local[r] EXCEPT !.record = record, !.todo = owed]
  <1>1. Holds(r, "ready", new) /\ UNCHANGED <<sending, lock>> /\ pc[r] = "take"
    BY DEF Take, locks
  <1>2. owed \subseteq Steps /\ (record # None => owed \cap record.steps = {})
    BY DEF PendingSteps, StepsOwed, Steps, Kinds, IInv, TypeOK
  <1> HIDE DEF owed
  <1>3. /\ new \in Locals /\ new.record = record /\ new.todo = owed
        /\ new.leaving = local[r].leaving /\ new.chain = local[r].chain
    BY <1>2 DEF Locals, IInv, TypeOK
  <1> HIDE DEF new
  <1>4. Standing' /\ OthersStay(r) /\ pc'[r] = "ready" /\ local'[r] = new
    BY <1>1, <1>3, HoldsEffect DEF Points, IInv
  <1>5. MovesWell(r)
    BY <1>1, <1>3, <1>4
       DEF MovesWell, LocksWell, Enters, IInv, TypeOK, LocksTyped, OwnersAt, RolesAt, Placing
  <1>6. BesideAt(r)' /\ PdfAt(r)'
    BY <1>4 DEF BesideAt, PdfAt, Placing
  <1>7. FitsAt(r)'
    BY <1>0, <1>1, <1>2, <1>3, <1>4 DEF FitsAt, Stepping, IInv, RolesAt
  <1>8. TrueRecord(local[r].record)'
    BY <1>0, <1>3, <1>4 DEF TrueRecord
  <1> QED BY <1>0, <1>5, <1>6, <1>7, <1>8, StepIInv DEF FilesWell, FilingWell, ZoteroWell

LEMMA ChainStep ==
    ASSUME IInv, NEW r \in Requests, Chain(r)
    PROVE  IInv'
  <1>0. /\ FilesTyped' /\ MarkdownComplete' /\ UNCHANGED <<markdown, artifacts>>
        /\ FilingTyped' /\ record' = record /\ TrueRecord(record)'
        /\ ZoteroTyped' /\ Gains /\ UNCHANGED pdfs /\ clashed' = clashed
    BY DEF Chain, IInv, TypeOK, FilesTyped, MarkdownComplete, FilingTyped, ZoteroTyped, Gains,
           TrueRecord, Live, files, filing, zotero
  <1> DEFINE new == [local[r] EXCEPT !.chain = FALSE]
  <1>1. Holds(r, "plugin", new) /\ UNCHANGED <<sending, lock>> /\ pc[r] = "chain"
    BY DEF Chain, locks
  <1>3. /\ new \in Locals /\ new.record = local[r].record /\ new.todo = local[r].todo
        /\ new.leaving = local[r].leaving /\ ~new.chain
    BY DEF Locals, IInv, TypeOK
  <1> HIDE DEF new
  <1>4. Standing' /\ OthersStay(r) /\ pc'[r] = "plugin" /\ local'[r] = new
    BY <1>1, <1>3, HoldsEffect DEF Points, IInv
  <1>5. MovesWell(r)
    BY <1>1, <1>3, <1>4
       DEF MovesWell, LocksWell, Enters, IInv, TypeOK, LocksTyped, OwnersAt, RolesAt, Placing
  <1>6. BesideAt(r)' /\ PdfAt(r)' /\ FitsAt(r)'
    BY <1>3, <1>4 DEF BesideAt, PdfAt, FitsAt, Placing, Stepping, IInv
  <1>8. TrueRecord(local[r].record)'
    BY <1>0, <1>3, <1>4, StillTrue DEF IInv, TypeOK, Locals, TrueRecord
  <1> QED BY <1>0, <1>5, <1>6, <1>8, StepIInv DEF FilesWell, FilingWell, ZoteroWell

LEMMA LeaveStep ==
    ASSUME IInv, NEW r \in Requests, Leave(r)
    PROVE  IInv'
  <1>0. /\ FilesTyped' /\ MarkdownComplete' /\ UNCHANGED <<markdown, artifacts>>
        /\ FilingTyped' /\ record' = record /\ TrueRecord(record)'
        /\ ZoteroTyped' /\ Gains /\ UNCHANGED pdfs /\ clashed' = clashed
    BY DEF Leave, IInv, TypeOK, FilesTyped, MarkdownComplete, FilingTyped, ZoteroTyped, Gains,
           TrueRecord, Live, files, filing, zotero
  <1>1. CASE kept
    BY <1>0, <1>1, EndEffect, StepIInv DEF Leave, FilesWell, FilingWell, ZoteroWell
  <1>2. CASE ~kept
    <2> DEFINE new == [local[r] EXCEPT !.leaving = TRUE]
    <2>1. Holds(r, "remove", new) /\ UNCHANGED <<sending, lock>> /\ pc[r] = "leave"
      BY <1>2 DEF Leave, locks
    <2>2. /\ new \in Locals /\ new.record = local[r].record /\ new.todo = local[r].todo
          /\ new.leaving /\ new.chain = local[r].chain
      BY DEF Locals, IInv, TypeOK
    <2> HIDE DEF new
    <2>3. Standing' /\ OthersStay(r) /\ pc'[r] = "remove" /\ local'[r] = new
      BY <2>1, <2>2, HoldsEffect DEF Points, IInv
    <2>4. MovesWell(r)
      BY <2>1, <2>2, <2>3
         DEF MovesWell, LocksWell, Enters, IInv, TypeOK, LocksTyped, OwnersAt, RolesAt, Placing
    <2>5. BesideAt(r)' /\ PdfAt(r)' /\ FitsAt(r)'
      BY <2>1, <2>2, <2>3 DEF BesideAt, PdfAt, FitsAt, Placing, Stepping, IInv
    <2>6. TrueRecord(local[r].record)'
      BY <1>0, <2>2, <2>3, StillTrue DEF IInv, TypeOK, Locals, TrueRecord
    <2> QED BY <1>0, <2>4, <2>5, <2>6, StepIInv DEF FilesWell, FilingWell, ZoteroWell
  <1> QED BY <1>1, <1>2

-----------------------------------------------------------------------------
(* The steps that ask something of Zotero.                                 *)

\* Such a step leaves the files and the filing alone.
LEMMA Undisturbed ==
    ASSUME IInv, UNCHANGED <<files, filing>>, Gains, clashed => clashed'
    PROVE  /\ FilesTyped' /\ MarkdownComplete' /\ UNCHANGED <<markdown, artifacts>>
           /\ FilingTyped' /\ record' = record /\ TrueRecord(record)'
  <1>1. /\ FilesTyped' /\ MarkdownComplete' /\ UNCHANGED <<markdown, artifacts>>
        /\ FilingTyped' /\ record' = record
    BY DEF IInv, TypeOK, FilesTyped, MarkdownComplete, FilingTyped, files, filing
  <1>2. record \in Records \cup {None} /\ TrueRecord(record)
    BY DEF IInv, TypeOK
  <1> QED BY <1>1, <1>2, StillTrue DEF TrueRecord

LEMMA MadeEffect ==
    ASSUME IInv, NEW s \in Steps, Made(s), UNCHANGED <<item, pdfs>>
    PROVE  ZoteroTyped' /\ Gains /\ did'[s] > 0
  BY DEF IInv, TypeOK, ZoteroTyped, Gains, Made, Live

\* The call fails, whatever became of it.
LEMMA FailedStep ==
    ASSUME IInv, NEW r \in Requests, End(r), UNCHANGED <<files, filing, clashed>>,
           ZoteroTyped', Gains, UNCHANGED pdfs \/ (r \in Serialized /\ sending = r)
    PROVE  IInv'
  BY Undisturbed, EndEffect, StepIInv DEF FilesWell, FilingWell, ZoteroWell

\* Step S is done: the record R holds says so, and is saved next.
LEMMA DoneEffect ==
    ASSUME TypeOK, NEW r \in Requests, NEW s \in Steps, local[r].record # None, Done(r, s)
    PROVE  /\ Standing' /\ OthersStay(r)
           /\ pc'[r] = "save"
           /\ local'[r].record = [local[r].record EXCEPT !.steps = @ \cup {s}]
           /\ local'[r].record # None
           /\ local'[r].todo = local[r].todo \ {s}
           /\ local'[r].chain = local[r].chain /\ local'[r].leaving = local[r].leaving
  <1> DEFINE rec == [local[r].record EXCEPT !.steps = @ \cup {s}]
             new == [local[r] EXCEPT !.record.steps = @ \cup {s}, !.todo = @ \ {s}, !.old = None]
  <1>1. local[r] \in Locals /\ local[r].record \in Records /\ None \notin Records
    BY NoneAssumption DEF TypeOK, Locals
  <1>2. rec \in Records /\ rec # None
    BY <1>1 DEF Records
  <1>3. /\ new \in Locals /\ new.record = rec /\ new.todo = local[r].todo \ {s}
        /\ new.chain = local[r].chain /\ new.leaving = local[r].leaving
    BY <1>1, <1>2 DEF Locals
  <1> HIDE DEF new, rec
  <1>4. Holds(r, "save", new)
    BY DEF Done, new
  <1>5. Standing' /\ OthersStay(r) /\ pc'[r] = "save" /\ local'[r] = new
    BY <1>2, <1>3, <1>4, HoldsEffect DEF Points
  <1> QED BY <1>2, <1>3, <1>5 DEF rec

LEMMA DoneStep ==
    ASSUME IInv, NEW r \in Requests, NEW s \in Steps, pc[r] \in Stepping, s \in local[r].todo,
           Done(r, s), UNCHANGED <<files, filing, clashed, sending, lock>>,
           ZoteroTyped', Gains, IF s = "pdf" THEN Live' # {} ELSE did'[s] > 0
    PROVE  IInv'
  <1>0. r \in Serialized /\ sending = r
    BY DEF IInv, OwnersAt, RolesAt, Requests, Placing, Stepping
  <1>1. /\ local[r].record # None /\ local[r].record \in Records /\ TrueRecord(local[r].record)
        /\ local[r].todo \cap local[r].record.steps = {}
    BY DEF IInv, FitsAt, TypeOK, Locals
  <1>2. /\ Standing' /\ OthersStay(r) /\ pc'[r] = "save"
        /\ local'[r].record = [local[r].record EXCEPT !.steps = @ \cup {s}]
        /\ local'[r].record # None
        /\ local'[r].todo = local[r].todo \ {s}
        /\ local'[r].chain = local[r].chain /\ local'[r].leaving = local[r].leaving
    BY <1>1, DoneEffect DEF IInv
  <1>3. MovesWell(r)
    BY <1>0, <1>2
       DEF MovesWell, LocksWell, Enters, IInv, TypeOK, LocksTyped, OwnersAt, RolesAt, Placing, Stepping
  <1>4. BesideAt(r)' /\ PdfAt(r)'
    BY <1>2 DEF BesideAt, PdfAt, Placing
  <1>5. FitsAt(r)'
    BY <1>1, <1>2 DEF FitsAt, Stepping, Records
  <1>6. TrueRecord(local[r].record)'
    <2> DEFINE rec == [local[r].record EXCEPT !.steps = @ \cup {s}]
    <2>1. rec.steps = local[r].record.steps \cup {s} /\ rec.method = local[r].record.method
      BY <1>1 DEF Records
    <2>2. /\ \A t \in local[r].record.steps :
                IF t = "pdf" /\ local[r].record.method = "item" THEN Live' # {} ELSE did'[t] > 0
          /\ local[r].record.method = "standalone" => "pdf" \in local[r].record.steps
      BY <1>1, StillTrue
    <2>3. s = "pdf" => local[r].record.method = "item"
      BY <1>1, <2>2 DEF Records
    <2>4. \A t \in rec.steps : IF t = "pdf" /\ rec.method = "item" THEN Live' # {} ELSE did'[t] > 0
      BY <2>1, <2>2, <2>3
    <2>5. rec.method = "standalone" => "pdf" \in rec.steps
      BY <2>1, <2>2
    <2> HIDE DEF rec
    <2>6. local'[r].record = rec
      BY <1>2 DEF rec
    <2> QED BY <2>4, <2>5, <2>6 DEF TrueRecord
  <1> QED BY <1>0, <1>3, <1>4, <1>5, <1>6, Undisturbed, StepIInv
         DEF FilesWell, FilingWell, ZoteroWell

LEMMA ImportStep ==
    ASSUME IInv, NEW r \in Requests, Import(r)
    PROVE  IInv'
  <1> DEFINE rec == [method |-> "item", steps |-> {}]
             new == [local[r] EXCEPT !.record = rec]
  <1>0. /\ UNCHANGED <<files, filing, clashed, pdfs, did>> /\ ZoteroTyped' /\ Gains
        /\ pc[r] = "import"
    BY DEF Import, Asked, IInv, TypeOK, ZoteroTyped, Gains, Live, zotero
  <1>1. CASE End(r)
    BY <1>0, <1>1, FailedStep
  <1>2. CASE Holds(r, "save", new) /\ UNCHANGED locks
    <2>1. rec \in Records /\ rec # None
      BY NoneAssumption DEF Records
    <2>2. /\ new \in Locals /\ new.record = rec /\ new.todo = local[r].todo
          /\ new.leaving = local[r].leaving /\ new.chain = local[r].chain
      BY <2>1 DEF Locals, IInv, TypeOK
    <2> HIDE DEF new
    <2>3. Standing' /\ OthersStay(r) /\ pc'[r] = "save" /\ local'[r] = new
      BY <1>2, <2>1, <2>2, HoldsEffect DEF Points, IInv
    <2>4. MovesWell(r)
      BY <1>0, <1>2, <2>2, <2>3
         DEF MovesWell, LocksWell, Enters, IInv, TypeOK, LocksTyped, OwnersAt, RolesAt, Placing, locks
    <2>5. BesideAt(r)' /\ PdfAt(r)' /\ FitsAt(r)'
      BY <2>1, <2>2, <2>3 DEF BesideAt, PdfAt, FitsAt, Placing, Stepping
    <2>6. TrueRecord(local[r].record)'
      BY <2>2, <2>3 DEF TrueRecord
    <2> QED BY <1>0, <2>4, <2>5, <2>6, Undisturbed, StepIInv DEF FilesWell, FilingWell, ZoteroWell
  <1> QED BY <1>1, <1>2 DEF Import, Asked

LEMMA StandaloneStep ==
    ASSUME IInv, NEW r \in Requests, Standalone(r)
    PROVE  IInv'
  <1> DEFINE rec == [method |-> "standalone", steps |-> {"pdf"}]
             new == [local[r] EXCEPT !.record = rec]
  <1>0. /\ UNCHANGED <<files, filing, clashed, pdfs>> /\ ZoteroTyped' /\ Gains
        /\ pc[r] = "standalone"
        /\ End(r) \/ (did'["pdf"] > 0 /\ Holds(r, "save", new) /\ UNCHANGED locks)
    <2>1. CASE UNCHANGED zotero /\ End(r)
      BY <2>1 DEF Standalone, IInv, TypeOK, ZoteroTyped, Gains, Live, zotero
    <2>2. CASE Made("pdf") /\ UNCHANGED <<item, pdfs>>
      BY <2>2, MadeEffect DEF Standalone, Asked, Steps, Kinds
    <2> QED BY <2>1, <2>2 DEF Standalone, Asked
  <1>1. CASE End(r)
    BY <1>0, <1>1, FailedStep
  <1>2. CASE did'["pdf"] > 0 /\ Holds(r, "save", new) /\ UNCHANGED locks
    <2>1. rec \in Records /\ rec # None
      BY NoneAssumption DEF Records, Steps, Kinds
    <2>2. /\ new \in Locals /\ new.record = rec /\ new.todo = local[r].todo
          /\ new.leaving = local[r].leaving /\ new.chain = local[r].chain
      BY <2>1 DEF Locals, IInv, TypeOK
    <2> HIDE DEF new
    <2>3. Standing' /\ OthersStay(r) /\ pc'[r] = "save" /\ local'[r] = new
      BY <1>2, <2>1, <2>2, HoldsEffect DEF Points, IInv
    <2>4. MovesWell(r)
      BY <1>0, <1>2, <2>2, <2>3
         DEF MovesWell, LocksWell, Enters, IInv, TypeOK, LocksTyped, OwnersAt, RolesAt, Placing, locks
    <2>5. BesideAt(r)' /\ PdfAt(r)'
      BY <2>3 DEF BesideAt, PdfAt, Placing
    <2>6. FitsAt(r)'
      BY <1>0, <2>1, <2>2, <2>3 DEF FitsAt, Stepping, IInv
    <2>7. TrueRecord(local[r].record)'
      BY <1>2, <2>2, <2>3 DEF TrueRecord
    <2> QED BY <1>0, <2>4, <2>5, <2>6, <2>7, Undisturbed, StepIInv
            DEF FilesWell, FilingWell, ZoteroWell
  <1> QED BY <1>0, <1>1, <1>2

LEMMA WriteStep ==
    ASSUME IInv, NEW r \in Requests, Write(r)
    PROVE  IInv'
  <1>1. PICK s \in Steps \ {"pdf"} :
          /\ pc[r] = "step" /\ Due(local[r].todo, s)
          /\ IF s = "markdown" /\ markdown = None THEN End(r) /\ UNCHANGED zotero
             ELSE Asked(r, Made(s) /\ UNCHANGED <<item, pdfs>>, Done(r, s))
          /\ UNCHANGED <<files, filing, clashed>>
    BY DEF Write
  <1>2. CASE End(r) /\ UNCHANGED zotero
    BY <1>1, <1>2, FailedStep DEF IInv, TypeOK, ZoteroTyped, Gains, Live, zotero
  <1>3. CASE Made(s) /\ UNCHANGED <<item, pdfs>> /\ End(r)
    BY <1>1, <1>3, MadeEffect, FailedStep
  <1>4. CASE Made(s) /\ UNCHANGED <<item, pdfs>> /\ Done(r, s) /\ UNCHANGED locks
    BY <1>1, <1>4, MadeEffect, DoneStep DEF Due, Stepping, locks
  <1> QED BY <1>1, <1>2, <1>3, <1>4 DEF Asked

\* What the three steps of one_pdf that go on to another have in common.
LEMMA OldStep ==
    ASSUME IInv, NEW r \in Requests, NEW to \in {"count", "attach", "replace"},
           NEW new \in Locals, Holds(r, to, new),
           \E old \in Pdfs \cup {None} : new = [local[r] EXCEPT !.old = old],
           pc[r] \in Stepping, "pdf" \in local[r].todo,
           UNCHANGED <<files, filing, clashed, sending, lock>>,
           ZoteroTyped', Gains, PdfAt(r)'
    PROVE  IInv'
  <1>0. r \in Serialized /\ sending = r
    BY DEF IInv, OwnersAt, RolesAt, Requests, Placing, Stepping
  <1>1. /\ new.record = local[r].record /\ new.todo = local[r].todo
        /\ new.leaving = local[r].leaving /\ new.chain = local[r].chain
    BY DEF IInv, TypeOK, Locals
  <1>2. Standing' /\ OthersStay(r) /\ pc'[r] = to /\ local'[r] = new
    BY HoldsEffect DEF Points, IInv
  <1>3. MovesWell(r)
    BY <1>0, <1>1, <1>2
         DEF MovesWell, LocksWell, Enters, IInv, TypeOK, LocksTyped, OwnersAt, RolesAt, Placing, Stepping
  <1>4. BesideAt(r)' /\ FitsAt(r)'
    BY <1>1, <1>2, Undisturbed DEF BesideAt, FitsAt, Placing, Stepping, IInv
  <1>5. TrueRecord(local[r].record)'
    BY <1>1, <1>2, StillTrue DEF IInv, TypeOK, Locals, TrueRecord
  <1> QED BY <1>0, <1>3, <1>4, <1>5, Undisturbed, StepIInv DEF FilesWell, FilingWell, ZoteroWell

LEMMA LookStep ==
    ASSUME IInv, NEW r \in Requests, Look(r)
    PROVE  IInv'
  <1>0. /\ UNCHANGED <<files, filing, clashed, pdfs>> /\ ZoteroTyped' /\ Gains
        /\ pc[r] = "step" /\ "pdf" \in local[r].todo /\ Live' = Live
    BY DEF Look, IInv, TypeOK, ZoteroTyped, Gains, Live, zotero, Due
  <1>1. CASE End(r)
    BY <1>0, <1>1, FailedStep
  <1>2. ASSUME NEW old \in Pdfs \cup {None}, NEW to \in {"count", "attach"},
               Holds(r, to, [local[r] EXCEPT !.old = old]), UNCHANGED locks,
               Live = {old} \ {None}, to = "count" => old # None
        PROVE  IInv'
    <2> DEFINE new == [local[r] EXCEPT !.old = old]
    <2>1. new \in Locals /\ new.old = old /\ new.record = local[r].record
      BY <1>2 DEF IInv, TypeOK, Locals
    <2>2. pc'[r] = to /\ local'[r] = new
      BY <1>2, <2>1 DEF IInv, TypeOK, Holds, Go
    <2>3. PdfAt(r)'
      BY <1>0, <1>2, <2>1, <2>2 DEF PdfAt
    <2>4. \E o \in Pdfs \cup {None} : new = [local[r] EXCEPT !.old = o]
      OBVIOUS
    <2> HIDE DEF new
    <2>5. Holds(r, to, new)
      BY <1>2 DEF new
    <2> QED BY <1>0, <1>2, <2>1, <2>3, <2>4, <2>5, OldStep DEF Stepping, locks
  <1>3. CASE Live = {} /\ Holds(r, "attach", [local[r] EXCEPT !.old = None]) /\ UNCHANGED locks
    BY <1>2, <1>3
  <1>4. CASE \E p \in Live : /\ Live = {p}
                             /\ Holds(r, "count", [local[r] EXCEPT !.old = p]) /\ UNCHANGED locks
    <2>1. PICK p \in Live : /\ Live = {p}
                            /\ Holds(r, "count", [local[r] EXCEPT !.old = p]) /\ UNCHANGED locks
      BY <1>4
    <2>2. p \in Pdfs /\ p # None
      BY NoneAssumption DEF Live
    <2> QED BY <1>2, <2>1, <2>2
  <1> QED BY <1>1, <1>3, <1>4 DEF Look

\* The record a request holds stays the one it held as it goes on to attach.
LEMMA SameOld ==
    ASSUME IInv, NEW r \in Requests, NEW to \in Points, Go(r, to), UNCHANGED local
    PROVE  /\ Holds(r, to, local[r]) /\ local[r] \in Locals
           /\ \E old \in Pdfs \cup {None} : local[r] = [local[r] EXCEPT !.old = old]
  <1>1. local[r] \in Locals /\ local = [local EXCEPT ![r] = local[r]]
    BY DEF IInv, TypeOK
  <1>2. local[r].old \in Pdfs \cup {None} /\ local[r] = [local[r] EXCEPT !.old = local[r].old]
    BY <1>1 DEF Locals
  <1> QED BY <1>1, <1>2 DEF Holds

LEMMA CountStep ==
    ASSUME IInv, NEW r \in Requests, Count(r)
    PROVE  IInv'
  <1>0. /\ UNCHANGED <<files, filing, clashed, pdfs>> /\ ZoteroTyped' /\ Gains
        /\ pc[r] = "count" /\ Live' = Live
    BY DEF Count, IInv, TypeOK, ZoteroTyped, Gains, Live, zotero
  <1>1. "pdf" \in local[r].todo /\ Live = {local[r].old} /\ local[r].old # None
    BY <1>0 DEF IInv, FitsAt, PdfAt, Stepping
  <1>2. CASE End(r)
    BY <1>0, <1>2, FailedStep
  <1>3. CASE Done(r, "pdf") /\ UNCHANGED locks
    BY <1>0, <1>1, <1>3, DoneStep DEF Stepping, Steps, Kinds, locks
  <1>4. CASE Go(r, "attach") /\ UNCHANGED <<local, locks>>
    <2>1. PdfAt(r)'
      BY <1>0, <1>1, <1>4 DEF PdfAt, IInv, TypeOK, Go
    <2> QED BY <1>0, <1>1, <1>4, <2>1, SameOld, OldStep DEF Stepping, Points, locks
  <1> QED BY <1>2, <1>3, <1>4 DEF Count

LEMMA AttachStep ==
    ASSUME IInv, NEW r \in Requests, Attach(r)
    PROVE  IInv'
  <1>0. /\ UNCHANGED <<files, filing, clashed>> /\ pc[r] = "attach"
        /\ "pdf" \in local[r].todo /\ Live = {local[r].old} \ {None}
        /\ r \in Serialized /\ sending = r
    BY DEF Attach, IInv, FitsAt, PdfAt, Stepping, OwnersAt, RolesAt, Requests, Placing
  <1>1. CASE End(r) /\ UNCHANGED zotero
    BY <1>0, <1>1, FailedStep DEF IInv, TypeOK, ZoteroTyped, Gains, Live, zotero
  <1>2. ASSUME NEW p \in Pdfs \ Live, pdfs' = [pdfs EXCEPT ![p] = marks], Made("pdf"),
               UNCHANGED item,
               \/ End(r)
               \/ /\ IF local[r].old = None THEN Done(r, "pdf")
                     ELSE Go(r, "replace") /\ UNCHANGED local
                  /\ UNCHANGED locks
        PROVE  IInv'
    <2>1. Live' = Live \cup {p}
      BY <1>2, NoneAssumption DEF IInv, TypeOK, Live, Marks
    <2>2. ZoteroTyped' /\ Gains
      <3>1. /\ did' \in [Steps -> Nat] /\ \A s \in Steps : did[s] > 0 => did'[s] > 0
            /\ mailed' = mailed
        BY <1>2 DEF IInv, TypeOK, Made, Steps, Kinds
      <3>2. pdfs' \in [Pdfs -> Marks \cup {None}]
        BY <1>2 DEF IInv, TypeOK
      <3> QED BY <1>2, <2>1, <3>1, <3>2 DEF IInv, TypeOK, ZoteroTyped, Gains
    <2>3. CASE End(r)
      BY <1>0, <2>2, <2>3, FailedStep
    <2>4. CASE Done(r, "pdf") /\ UNCHANGED locks
      BY <1>0, <2>1, <2>2, <2>4, DoneStep DEF Stepping, Steps, Kinds, locks
    <2>5. CASE local[r].old # None /\ Go(r, "replace") /\ UNCHANGED <<local, locks>>
      <3>1. PdfAt(r)'
        BY <1>0, <1>2, <2>1, <2>5 DEF PdfAt, IInv, TypeOK, Go
      <3> QED BY <1>0, <2>2, <2>5, <3>1, SameOld, OldStep DEF Stepping, Points, locks
    <2> QED BY <1>2, <2>3, <2>4, <2>5
  <1> QED BY <1>1, <1>2 DEF Attach, Asked

LEMMA ReplaceStep ==
    ASSUME IInv, NEW r \in Requests, Replace(r)
    PROVE  IInv'
  <1>0. /\ UNCHANGED <<files, filing, clashed>> /\ pc[r] = "replace"
        /\ "pdf" \in local[r].todo /\ \E p \in Live : p # local[r].old
        /\ r \in Serialized /\ sending = r
    BY DEF Replace, IInv, FitsAt, PdfAt, Stepping, OwnersAt, RolesAt, Requests, Placing
  <1>1. CASE End(r) /\ UNCHANGED zotero
    BY <1>0, <1>1, FailedStep DEF IInv, TypeOK, ZoteroTyped, Gains, Live, zotero
  <1>2. ASSUME pdfs' = [pdfs EXCEPT ![local[r].old] = None], UNCHANGED <<item, did, mailed>>,
               End(r) \/ (Done(r, "pdf") /\ UNCHANGED locks)
        PROVE  IInv'
    <2>1. Live' # {}
      BY <1>0, <1>2 DEF IInv, TypeOK, Live
    <2>2. ZoteroTyped' /\ Gains
      BY <1>2, <2>1 DEF IInv, TypeOK, ZoteroTyped, Gains
    <2>3. CASE End(r)
      BY <1>0, <2>2, <2>3, FailedStep
    <2>4. CASE Done(r, "pdf") /\ UNCHANGED locks
      BY <1>0, <2>1, <2>2, <2>4, DoneStep DEF Stepping, Steps, Kinds, locks
    <2> QED BY <1>2, <2>3, <2>4
  <1> QED BY <1>1, <1>2 DEF Replace, Asked

-----------------------------------------------------------------------------
(* The user, Zotero's user, and the end of the app.                        *)

LEMMA EnvStep ==
    ASSUME IInv, UNCHANGED <<pc, local, locks, markdown, artifacts, record, clashed>>,
           FilesTyped', FilingTyped', ZoteroTyped', Gains, \A q \in Requests : PdfAt(q)'
    PROVE  IInv'
  <1>0. pc' = pc /\ local' = local /\ sending' = sending /\ lock' = lock
    BY DEF locks
  <1>1. TypeOK'
    BY <1>0 DEF IInv, TypeOK, FilesTyped, FilingTyped, ZoteroTyped
  <1>2. MarkdownComplete' /\ Apart' /\ TrueRecord(record)'
    BY <1>0, StillTrue DEF IInv, TypeOK, MarkdownComplete, Apart, TrueRecord
  <1>3. ASSUME NEW q \in Requests
        PROVE  /\ OwnersAt(q)' /\ RolesAt(q)' /\ BesideAt(q)' /\ FitsAt(q)'
               /\ TrueRecord(local[q].record)'
    <2>1. OwnersAt(q)' /\ RolesAt(q)' /\ BesideAt(q)' /\ FitsAt(q)'
      BY <1>0 DEF IInv, OwnersAt, RolesAt, BesideAt, FitsAt
    <2>2. local[q].record \in Records \cup {None} /\ TrueRecord(local[q].record)
      BY DEF IInv, TypeOK, Locals
    <2> QED BY <1>0, <2>1, <2>2, StillTrue DEF TrueRecord
  <1> QED BY <1>1, <1>2, <1>3 DEF IInv

\* The bucket's user: Zotero is as it was.
LEMMA UserStep ==
    ASSUME IInv, AddNote \/ DeleteNote \/ Annotate \/ Keep
    PROVE  IInv'
  <1>1. /\ UNCHANGED <<pc, local, locks, markdown, artifacts, record, clashed>>
        /\ UNCHANGED zotero
    BY DEF AddNote, DeleteNote, Annotate, Keep, files, filing
  <1>2. FilesTyped' /\ FilingTyped'
    <2>1. CASE AddNote
      BY <2>1 DEF AddNote, files, IInv, TypeOK, FilesTyped, FilingTyped
    <2>2. CASE DeleteNote
      BY <2>2 DEF DeleteNote, files, IInv, TypeOK, FilesTyped, FilingTyped
    <2>3. CASE Annotate
      BY <2>3, BoundsAssumption
         DEF Annotate, filing, IInv, TypeOK, FilesTyped, FilingTyped, Marks
    <2>4. CASE Keep
      BY <2>4 DEF Keep, files, IInv, TypeOK, FilesTyped, FilingTyped
    <2> QED BY <2>1, <2>2, <2>3, <2>4
  <1>3. ZoteroTyped' /\ Gains /\ \A q \in Requests : PdfAt(q)'
    BY <1>1 DEF IInv, TypeOK, ZoteroTyped, Gains, PdfAt, Live, zotero
  <1> QED BY <1>1, <1>2, <1>3, EnvStep

LEMMA ZoteroAnnotateStep ==
    ASSUME IInv, ZoteroAnnotate
    PROVE  IInv'
  <1>1. /\ UNCHANGED <<pc, local, locks, markdown, artifacts, record, clashed>>
        /\ FilesTyped' /\ FilingTyped'
    BY DEF ZoteroAnnotate, files, filing, IInv, TypeOK, FilesTyped, FilingTyped
  <1>2. PICK p \in Live : pdfs[p] < MaxMarks /\ pdfs' = [pdfs EXCEPT ![p] = @ + 1]
    BY DEF ZoteroAnnotate
  <1>3. pdfs[p] \in Marks /\ pdfs[p] + 1 \in Marks
    BY <1>2, BoundsAssumption DEF IInv, TypeOK, Live, Marks
  <1>4. ZoteroTyped' /\ Live' = Live
    BY <1>2, <1>3, NoneAssumption
       DEF ZoteroAnnotate, IInv, TypeOK, ZoteroTyped, Live, Marks
  <1>5. Gains /\ \A q \in Requests : PdfAt(q)'
    BY <1>1, <1>4 DEF ZoteroAnnotate, Gains, PdfAt, IInv
  <1> QED BY <1>1, <1>4, <1>5, EnvStep

LEMMA TidyStep ==
    ASSUME IInv, Tidy
    PROVE  IInv'
  <1>1. /\ UNCHANGED <<pc, local, locks, markdown, artifacts, record, clashed>>
        /\ FilesTyped' /\ FilingTyped' /\ UNCHANGED <<did, item, mailed>>
    BY DEF Tidy, files, filing, IInv, TypeOK, FilesTyped, FilingTyped
  <1>2. PICK p \in Live : pdfs' = [pdfs EXCEPT ![p] = None]
    BY DEF Tidy
  <1>3. Live # {} /\ \A x : Live # {x}
    <2>1. Cardinality(Live) \notin {0, 1}
      BY DEF Tidy
    <2>2. Live # {}
      BY <2>1, FS_EmptySet, Zenon
    <2>3. \A x : Live # {x}
      BY <2>1, FS_Singleton, Zenon
    <2> QED BY <2>2, <2>3
  <1>4. ZoteroTyped' /\ Live' = Live \ {p}
    BY <1>1, <1>2 DEF IInv, TypeOK, ZoteroTyped, Live
  <1>5. Gains
    BY <1>1, <1>3, <1>4 DEF Gains
  <1>6. ASSUME NEW q \in Requests PROVE PdfAt(q)'
    <2>1. pc[q] \notin {"count", "attach"}
      <3> SUFFICES ASSUME pc[q] \in {"count", "attach"} PROVE FALSE
        OBVIOUS
      <3>1. Live = {local[q].old} \ {None}
        BY DEF IInv, PdfAt
      <3> QED BY <1>3, <3>1
    <2> QED BY <1>1, <2>1 DEF Tidy, PdfAt
  <1> QED BY <1>1, <1>4, <1>5, <1>6, EnvStep

LEMMA CrashStep ==
    ASSUME IInv, Crash
    PROVE  IInv'
  <1>1. /\ UNCHANGED <<files, filing, zotero, clashed>> /\ sending' = None /\ lock' = None
        /\ \A q \in Requests : pc'[q] \in {"idle", "ended"} /\ local'[q] = Fresh
    BY DEF Crash
  <1>2. TypeOK'
    <2>1. pc' \in [Requests -> Points] /\ local' \in [Requests -> Locals]
      BY FreshTyped DEF Crash, Points
    <2> QED BY <1>1, <2>1 DEF IInv, TypeOK, files, filing, zotero, Live
  <1>3. MarkdownComplete' /\ Apart' /\ TrueRecord(record)'
    BY <1>1 DEF IInv, MarkdownComplete, Apart, Placing, TrueRecord, files, filing, zotero, Live
  <1>4. ASSUME NEW q \in Requests
        PROVE  /\ OwnersAt(q)' /\ RolesAt(q)' /\ BesideAt(q)' /\ FitsAt(q)' /\ PdfAt(q)'
               /\ TrueRecord(local[q].record)'
    BY <1>1, FreshTyped
       DEF OwnersAt, RolesAt, BesideAt, FitsAt, PdfAt, TrueRecord, Placing, Stepping
  <1> QED BY <1>2, <1>3, <1>4 DEF IInv

-----------------------------------------------------------------------------
(* The invariant.                                                          *)

LEMMA InitIInv == Init => IInv
  <1> SUFFICES ASSUME Init PROVE IInv
    OBVIOUS
  <1>1. TypeOK
    <2>1. pc \in [Requests -> Points] /\ local \in [Requests -> Locals]
      BY FreshTyped DEF Init, Points
    <2>2. marks \in Marks /\ did \in [Steps -> Nat]
      BY BoundsAssumption DEF Init, Marks
    <2> QED BY <2>1, <2>2 DEF Init, TypeOK
  <1>2. MarkdownComplete /\ Apart /\ TrueRecord(record)
    BY DEF Init, MarkdownComplete, Apart, Placing, TrueRecord
  <1>3. ASSUME NEW q \in Requests
        PROVE  /\ OwnersAt(q) /\ RolesAt(q) /\ BesideAt(q) /\ FitsAt(q) /\ PdfAt(q)
               /\ TrueRecord(local[q].record)
    BY FreshTyped
       DEF Init, OwnersAt, RolesAt, BesideAt, FitsAt, PdfAt, TrueRecord, Placing, Stepping
  <1> QED BY <1>1, <1>2, <1>3 DEF IInv

LEMMA NextIInv == IInv /\ [Next]_vars => IInv'
  <1> SUFFICES ASSUME IInv, [Next]_vars PROVE IInv'
    OBVIOUS
  <1>1. CASE UNCHANGED vars
    <2>1. /\ UNCHANGED <<pc, local, locks, markdown, artifacts, record, clashed>>
          /\ FilesTyped' /\ FilingTyped' /\ ZoteroTyped'
      BY <1>1 DEF vars, files, filing, zotero, IInv, TypeOK, FilesTyped, FilingTyped, ZoteroTyped
    <2>2. Gains /\ \A q \in Requests : PdfAt(q)'
      BY <1>1 DEF vars, zotero, IInv, Gains, PdfAt, Live
    <2> QED BY <2>1, <2>2, EnvStep
  <1>2. ASSUME NEW r \in Requests, Begin(r) \/ Lock(r) \/ Moves(r)
        PROVE  IInv'
    BY <1>2, BeginStep, LockStep, CheckStep, RequireStep, TakeStep, ReadyStep, ImportStep,
       SaveStep, FinishedStep, WriteStep, LookStep, CountStep, AttachStep, ReplaceStep,
       StandaloneStep, RunStep, ChainStep, PluginStep, ClearMarkdownStep, ClearArtifactsStep,
       MoveArtifactsStep, MoveMarkdownStep, LeaveStep, RemoveStep, TrashPdfStep, DropFilingStep,
       DisconnectStep
    DEF Moves
  <1>3. CASE AddNote \/ DeleteNote \/ Annotate \/ Keep \/ ZoteroAnnotate \/ Tidy \/ Crash
    BY <1>3, UserStep, ZoteroAnnotateStep, TidyStep, CrashStep
  <1> QED BY <1>1, <1>2, <1>3 DEF Next

\* The variables stay within their types, whatever fails, crashes or is asked
\* for while something else is under way.
THEOREM SendTypeCorrect == Spec => []TypeOK
  <1>1. IInv => TypeOK
    BY DEF IInv
  <1> QED BY InitIInv, NextIInv, <1>1, PTL DEF Spec

\* What the filing records as sent, Zotero holds (send_steps saves the record
\* only after the step it names).
THEOREM RecordTrueHolds == Spec => []RecordTrue
  <1>1. IInv => RecordTrue
    BY DEF IInv, TrueRecord, RecordTrue
  <1> QED BY InitIInv, NextIInv, <1>1, PTL DEF Spec

\* A Markdown in the data root is complete, whatever fails, crashes or is cut
\* off (place_extraction and trash_all under the key's lock), until a request
\* takes that lock while file work of a cut-off one still runs.
THEOREM MarkdownCompleteHolds == Spec => []MarkdownComplete
  <1>1. IInv => MarkdownComplete
    BY DEF IInv
  <1> QED BY InitIInv, NextIInv, <1>1, PTL DEF Spec

-----------------------------------------------------------------------------
(* What the steps ask of Zotero.                                           *)

\* The steps that change what it holds.
LEMMA ZoteroMoves ==
    ASSUME Next
    PROVE  \/ UNCHANGED <<pdfs, did>>
           \/ \E r \in Requests : Write(r) \/ Attach(r) \/ Replace(r) \/ Standalone(r)
           \/ ZoteroAnnotate \/ Tidy
  <1>1. ASSUME NEW r \in Requests, Begin(r) \/ Lock(r) \/ Check(r) \/ Require(r) \/ Take(r)
                                   \/ Ready(r) \/ Import(r) \/ Save(r) \/ Finished(r)
        PROVE  UNCHANGED <<pdfs, did>>
    BY <1>1 DEF Begin, Lock, Check, Require, Take, Ready, Import, Asked, Save, Finished, zotero
  <1>2. ASSUME NEW r \in Requests, Look(r) \/ Count(r) \/ Run(r) \/ Chain(r) \/ Plugin(r)
                                   \/ Leave(r) \/ Remove(r) \/ DropFiling(r) \/ Disconnect(r)
        PROVE  UNCHANGED <<pdfs, did>>
    BY <1>2 DEF Look, Count, Run, Chain, Plugin, Leave, Remove, DropFiling, Disconnect, zotero
  <1>3. ASSUME NEW r \in Requests, ClearMarkdown(r) \/ ClearArtifacts(r) \/ MoveArtifacts(r)
                                   \/ MoveMarkdown(r) \/ TrashPdf(r)
        PROVE  UNCHANGED <<pdfs, did>>
    BY <1>3 DEF ClearMarkdown, ClearArtifacts, MoveArtifacts, MoveMarkdown, TrashPdf, zotero
  <1>4. ASSUME AddNote \/ DeleteNote \/ Annotate \/ Keep \/ Crash
        PROVE  UNCHANGED <<pdfs, did>>
    BY <1>4 DEF AddNote, DeleteNote, Annotate, Keep, Crash, zotero
  <1> QED BY <1>1, <1>2, <1>3, <1>4 DEF Next, Moves

\* Only the call a request is about to record makes something.
LEMMA MadeUnrecorded ==
    ASSUME IInv, Next, NEW s \in Steps, did'[s] > did[s]
    PROVE  record = None \/ s \notin record.steps
  <1>0. did[s] \in Nat /\ did'[s] # did[s]
    BY DEF IInv, TypeOK
  <1>1. ASSUME NEW r \in Requests, Write(r)
        PROVE  record = None \/ s \notin record.steps
    <2>1. pc[r] = "step" /\ s \in local[r].todo
      BY <1>0, <1>1 DEF Write, Asked, Made, Due, zotero, IInv, TypeOK
    <2> QED BY <2>1 DEF IInv, FitsAt, Stepping
  <1>2. ASSUME NEW r \in Requests, Attach(r)
        PROVE  record = None \/ s \notin record.steps
    <2>1. pc[r] = "attach" /\ s = "pdf"
      BY <1>0, <1>2 DEF Attach, Asked, Made, zotero, IInv, TypeOK
    <2> QED BY <2>1 DEF IInv, FitsAt, Stepping
  <1>3. ASSUME NEW r \in Requests, Standalone(r)
        PROVE  record = None
    BY <1>3 DEF Standalone, IInv, FitsAt
  <1>4. ~ZoteroAnnotate /\ ~Tidy /\ \A r \in Requests : ~Replace(r)
    BY <1>0 DEF ZoteroAnnotate, Tidy, Replace, Asked, zotero
  <1> QED BY <1>0, <1>1, <1>2, <1>3, <1>4, ZoteroMoves

\* Zotero is asked for a step only while the filing does not record it, however
\* many sends of the item are asked for at once and wherever they fail (the send
\* lock, and the record read under it).
THEOREM NeverTwiceHolds == Spec => NeverTwice
  <1>1. IInv /\ [Next]_vars =>
          [\A s \in Steps : did'[s] > did[s] => record = None \/ s \notin record.steps]_vars
    BY MadeUnrecorded
  <1> QED BY InitIInv, NextIInv, <1>1, PTL DEF Spec, NeverTwice

LEMMA PdfStays ==
    ASSUME IInv, Next, Live # {}
    PROVE  Live' # {}
  <1>1. ASSUME NEW r \in Requests, Write(r) \/ Standalone(r)
        PROVE  Live' = Live
    BY <1>1 DEF Write, Standalone, Asked, zotero, Live
  <1>2. ASSUME NEW r \in Requests, Attach(r)
        PROVE  Live' # {}
    <2>1. CASE pdfs' = pdfs
      BY <2>1 DEF Live
    <2>2. CASE \E p \in Pdfs \ Live : pdfs' = [pdfs EXCEPT ![p] = marks]
      BY <2>2 DEF Live, IInv, TypeOK
    <2> QED BY <1>2, <2>1, <2>2 DEF Attach, Asked, zotero
  <1>3. ASSUME NEW r \in Requests, Replace(r)
        PROVE  Live' # {}
    <2>1. \E p \in Live : p # local[r].old
      BY <1>3 DEF Replace, IInv, PdfAt
    <2>2. CASE pdfs' = pdfs
      BY <2>2 DEF Live
    <2>3. CASE pdfs' = [pdfs EXCEPT ![local[r].old] = None]
      BY <2>1, <2>3 DEF Live, IInv, TypeOK
    <2> QED BY <1>3, <2>2, <2>3 DEF Replace, Asked, zotero
  <1>4. CASE ZoteroAnnotate
    <2>1. PICK p \in Live : pdfs[p] < MaxMarks /\ pdfs' = [pdfs EXCEPT ![p] = @ + 1]
      BY <1>4 DEF ZoteroAnnotate
    <2>2. p \in Pdfs /\ pdfs'[p] \in Nat
      BY <2>1 DEF IInv, TypeOK, Live, Marks
    <2> QED BY <2>2, NoneAssumption DEF Live
  <1>5. CASE Tidy
    <2>1. PICK p \in Live : pdfs' = [pdfs EXCEPT ![p] = None]
      BY <1>5 DEF Tidy
    <2>2. Live # {p}
      <3>1. Cardinality(Live) # 1
        BY <1>5 DEF Tidy
      <3> QED BY <3>1, FS_Singleton, Zenon
    <2>3. PICK q \in Live : q # p
      BY <2>1, <2>2
    <2>4. pdfs'[q] = pdfs[q]
      BY <2>1, <2>3 DEF Live, IInv, TypeOK
    <2> QED BY <2>3, <2>4 DEF Live
  <1> QED BY <1>1, <1>2, <1>3, <1>4, <1>5, ZoteroMoves DEF Live

\* An item of Zotero that holds a PDF never stands without one, at whatever call
\* of one_pdf a send fails or the app ends (attach first, then the trash).
THEOREM PdfAlwaysHolds == Spec => PdfAlways
  <1>1. IInv /\ [Next]_vars => [Live # {} => Live' # {}]_vars
    BY PdfStays
  <1> QED BY InitIInv, NextIInv, <1>1, PTL DEF Spec, PdfAlways

-----------------------------------------------------------------------------
(* What a send still owes, from the reads it goes by to its last step.     *)

\* What was there when the item's last send read it, and still is.
Wanted == (notes \ late) \cup (IF markdown # None /\ "markdown" \notin late THEN {"markdown"} ELSE {})
Recorded(rec) == IF rec = None THEN {} ELSE rec.steps
ItemOnly(rec) == rec # None => rec.method = "item"

Going == {"ready", "import", "standalone", "save"} \cup Stepping

\* A send knows of the Markdown.
FoundAt(r) == pc[r] \in {"check", "take"} /\ "markdown" \in Wanted => local[r].found

\* A send of the item works through all that is wanted, on a record of the item.
OwesAt(r) ==
    r \in Sends \cup Extracts =>
        /\ pc[r] # "standalone"
        /\ pc[r] \notin {"idle", "check", "ended"} => ItemOnly(record) /\ ItemOnly(local[r].record)
        /\ pc[r] \in Going =>
              Wanted \cup {"fields", "pdf"} \subseteq Recorded(local[r].record) \cup local[r].todo

\* A PDF is sent alone while nothing else is wanted.
AloneAt(r) ==
    r \in PdfOnlys /\ pc[r] \in Going =>
        /\ pc[r] # "import" /\ Wanted = {} /\ local[r].todo = {}
        /\ pc[r] \in {"save", "step"} => local[r].record # None /\ local[r].record.method = "standalone"

\* With its steps done, all that is wanted is in Zotero.
Sent ==
    /\ record # None /\ (record.method = "item" => did["fields"] > 0 /\ Live # {})
    /\ \A s \in Wanted \ {"markdown"} : did[s] > 0
    /\ "markdown" \in Wanted => mailed # "no"
SentAt(r) == pc[r] \in {"chain", "plugin", "leave"} => Sent

TakenAt(r) == FoundAt(r) /\ OwesAt(r) /\ AloneAt(r) /\ SentAt(r)

\* A Markdown that lies there while a record names one was sent, or came after.
Mailed == Named /\ markdown # None => mailed # "no"

LInv == Mailed /\ \A r \in Senders : TakenAt(r)

\* What was mailed stays so, or is not wanted any more.
StaysMailed == mailed # "no" => mailed' # "no" \/ "markdown" \notin Wanted'

LEMMA WantedSteps ==
    ASSUME IInv
    PROVE  Wanted \subseteq Steps \ {"fields", "pdf"}
  BY NotesAssumption DEF Wanted, Steps, Kinds, IInv, TypeOK

LEMMA DidGrows ==
    ASSUME IInv, Next
    PROVE  Gains
  <1>1. ASSUME NEW s \in Steps, did[s] > 0
        PROVE  did'[s] > 0
    <2>1. did \in [Steps -> Nat]
      BY DEF IInv, TypeOK
    <2>2. CASE did' = did
      BY <1>1, <2>2
    <2>3. CASE \E t : Made(t)
      BY <1>1, <2>1, <2>3 DEF Made
    <2> QED BY <2>2, <2>3, ZoteroMoves
            DEF Write, Attach, Replace, Standalone, ZoteroAnnotate, Tidy, Asked, zotero
  <1> QED BY <1>1, PdfStays DEF Gains

\* A send that stands where it stood, and one that is over.
LEMMA StillTaken ==
    ASSUME IInv, Next, NEW r \in Senders, TakenAt(r), pc'[r] = pc[r], local'[r] = local[r],
           record' = record, Wanted' \subseteq Wanted, StaysMailed
    PROVE  TakenAt(r)'
  <1>1. FoundAt(r)' /\ OwesAt(r)' /\ AloneAt(r)'
    BY DEF TakenAt, FoundAt, OwesAt, AloneAt, ItemOnly, Recorded
  <1>2. SentAt(r)'
    <2>1. \A s \in Wanted' : s \in Steps
      BY WantedSteps
    <2>2. "fields" \in Steps
      BY DEF Steps, Kinds
    <2> QED BY <2>1, <2>2, DidGrows DEF TakenAt, SentAt, Sent, Gains, StaysMailed
  <1> QED BY <1>1, <1>2 DEF TakenAt

LEMMA NotTaken ==
    ASSUME NEW r \in Senders, pc'[r] \in {"idle", "ended"}
    PROVE  TakenAt(r)'
  BY DEF TakenAt, FoundAt, OwesAt, AloneAt, SentAt, Going, Stepping

\* A request moves itself alone.
LEMMA OneMoves ==
    ASSUME IInv, NEW r \in Requests, Begin(r) \/ Lock(r) \/ Moves(r)
    PROVE  /\ \A q \in Requests : q # r => pc'[q] = pc[q] /\ local'[q] = local[q]
           /\ r \in Serialized => sending \in {r, None} \/ (r \in Deletes /\ Adrift(r))
  <1>0. pc \in [Requests -> Points] /\ local \in [Requests -> Locals]
    BY DEF IInv, TypeOK
  <1> DEFINE Alone == \A q \in Requests : q # r => pc'[q] = pc[q] /\ local'[q] = local[q]
  <1> USE <1>0 DEF End, Go, Holds
  <1>1. ASSUME Begin(r) \/ Lock(r) \/ Check(r) \/ Require(r) \/ Take(r) \/ Save(r) \/ Finished(r)
        PROVE  Alone
    <2>1. Begin(r) => Alone
      <3>1. Begin(r) => pc' = [pc EXCEPT ![r] = pc'[r]] /\ local' = [local EXCEPT ![r] = local'[r]]
        BY DEF Begin
      <3> QED BY <3>1
    <2>3. Check(r) \/ Require(r) => Alone
      BY DEF Check, Require
    <2>2. Lock(r) \/ Take(r) \/ Save(r) \/ Finished(r) => Alone
      BY DEF Lock, Take, Save, Finished
    <2> QED BY <1>1, <2>1, <2>2, <2>3
  <1>2. ASSUME Ready(r) \/ Look(r) \/ Run(r) \/ Chain(r) \/ Plugin(r) \/ Leave(r)
               \/ Remove(r) \/ Disconnect(r)
        PROVE  Alone
    <2>1. Ready(r) \/ Run(r) \/ Plugin(r) => Alone
      BY DEF Ready, Run, Plugin
    <2>2. Look(r) => Alone
      BY DEF Look
    <2>3. Chain(r) \/ Leave(r) \/ Remove(r) => Alone
      BY DEF Chain, Leave, Remove
    <2>4. Disconnect(r) => Alone
      BY DEF Disconnect
    <2> QED BY <1>2, <2>1, <2>2, <2>3, <2>4
  <1>3. ASSUME Import(r) \/ Write(r) \/ Count(r) \/ Attach(r) \/ Replace(r) \/ Standalone(r)
        PROVE  Alone
    <2>1. Import(r) => Alone
      BY DEF Import, Asked
    <2>2. Write(r) => Alone
      BY DEF Write, Asked, Done
    <2>3. Count(r) => Alone
      BY DEF Count, Done
    <2>4. Attach(r) => Alone
      BY DEF Attach, Asked, Done
    <2>5. Replace(r) \/ Standalone(r) => Alone
      BY DEF Replace, Standalone, Asked, Done
    <2> QED BY <1>3, <2>1, <2>2, <2>3, <2>4, <2>5
  <1>6. ASSUME ClearMarkdown(r) \/ ClearArtifacts(r) \/ MoveArtifacts(r) \/ MoveMarkdown(r)
             \/ TrashPdf(r) \/ DropFiling(r)
        PROVE  Alone
    <2>1. ClearMarkdown(r) \/ ClearArtifacts(r) \/ MoveArtifacts(r) => Alone
      BY DEF ClearMarkdown, ClearArtifacts, MoveArtifacts
    <2>2. MoveMarkdown(r) \/ TrashPdf(r) \/ DropFiling(r) => Alone
      BY DEF MoveMarkdown, TrashPdf, DropFiling
    <2> QED BY <1>6, <2>1, <2>2
  <1>4. r \in Serialized => Begin(r) \/ pc[r] \notin {"idle", "ended"}
    BY RequestsAssumption DEF Lock, Moves, Check, Require, Take, Ready, Import, Save, Finished, Write,
       Look, Count, Attach, Replace, Standalone, Run, Chain, Plugin, ClearMarkdown, ClearArtifacts,
       MoveArtifacts, MoveMarkdown, Leave, Remove, TrashPdf, DropFiling, Disconnect, Placing,
       Serialized, Senders
  <1>5. r \in Serialized => sending \in {r, None} \/ (r \in Deletes /\ Adrift(r))
    BY <1>4 DEF Begin, IInv, OwnersAt, Adrift
  <1> QED BY <1>1, <1>2, <1>3, <1>5, <1>6 DEF Moves

\* What others do takes nothing from a send: it holds the send lock, and what a plugin
\* brings beside it is late.
LEMMA RunKeeps ==
    ASSUME IInv, NEW r \in Runs, Begin(r) \/ Lock(r) \/ Moves(r)
    PROVE  record' = record /\ Wanted' \subseteq Wanted /\ StaysMailed
  <1>1. /\ pc[r] \in {"idle", "plugin", "place", "clear", "clearArtifacts", "artifacts", "markdown", "ended"}
        /\ r \in Requests /\ r \notin Serialized /\ r # None
    BY RequestsAssumption DEF IInv, RolesAt, Placing, Requests, Serialized, Senders
  <1>2. CASE Lock(r) \/ Run(r) \/ Plugin(r)
    BY <1>2 DEF Lock, Run, Plugin, files, filing, zotero, Wanted, StaysMailed
  <1>3. CASE ClearMarkdown(r) \/ ClearArtifacts(r) \/ MoveArtifacts(r) \/ Disconnect(r)
    <2>1. UNCHANGED <<record, notes, late, mailed>> /\ markdown' \in {markdown, None}
      BY <1>3 DEF ClearMarkdown, ClearArtifacts, MoveArtifacts, Disconnect, Cleared,
                  files, filing, zotero
    <2> QED BY <2>1 DEF Wanted, StaysMailed
  <1>4. CASE MoveMarkdown(r)
    BY <1>4, NotesAssumption DEF MoveMarkdown, Wanted, StaysMailed, IInv, TypeOK, Kinds
  <1>5. Lock(r) \/ Run(r) \/ Plugin(r) \/ ClearMarkdown(r) \/ ClearArtifacts(r)
        \/ MoveArtifacts(r) \/ MoveMarkdown(r) \/ Disconnect(r)
    BY <1>1 DEF Begin, Moves, Check, Require, Take, Ready, Import, Save, Finished, Write, Look, Count,
                Attach, Replace, Standalone, Chain, Leave, Remove, TrashPdf, DropFiling
  <1> QED BY <1>2, <1>3, <1>4, <1>5

\* Nor does the file work of a delete that was cut off.
LEMMA AdriftKeeps ==
    ASSUME IInv, NEW r \in Deletes, Adrift(r), Begin(r) \/ Lock(r) \/ Moves(r)
    PROVE  record' = record /\ Wanted' \subseteq Wanted /\ StaysMailed
  <1>1. r \in Requests /\ r \notin Extracts \cup Runs
    BY RequestsAssumption DEF Requests, Serialized
  <1>2. pc[r] \in {"clear", "clearArtifacts", "trash"}
    BY <1>1 DEF IInv, RolesAt, Adrift, Placing
  <1>3. ClearMarkdown(r) \/ ClearArtifacts(r) \/ TrashPdf(r)
    BY <1>2 DEF Begin, Lock, Moves, Check, Require, Take, Ready, Import, Save, Finished, Write, Look,
                Count, Attach, Replace, Standalone, Run, Chain, Plugin, MoveArtifacts, MoveMarkdown,
                Leave, Remove, DropFiling, Disconnect, Adrift
  <1>4. UNCHANGED <<record, notes, late, mailed>> /\ markdown' \in {markdown, None}
    BY <1>3 DEF ClearMarkdown, ClearArtifacts, TrashPdf, Cleared, filing, zotero
  <1> QED BY <1>4 DEF Wanted, StaysMailed

LEMMA OtherTaken ==
    ASSUME IInv, LInv, Next, NEW r \in Requests, Begin(r) \/ Lock(r) \/ Moves(r),
           NEW q \in Senders, q # r
    PROVE  TakenAt(q)'
  <1>1. q \in Requests /\ q \in Serialized /\ q # None /\ TakenAt(q)
    BY RequestsAssumption DEF Requests, Serialized, LInv
  <1>2. /\ pc'[q] = pc[q] /\ local'[q] = local[q]
        /\ r \in Serialized => sending \in {r, None} \/ (r \in Deletes /\ Adrift(r))
    BY <1>1, OneMoves
  <1>3. CASE r \in Serialized
    <2>1. CASE r \in Deletes /\ Adrift(r)
      BY <1>1, <1>2, <2>1, AdriftKeeps, StillTaken
    <2>2. CASE sending \in {r, None}
      <3>1. q \notin Deletes
        BY RequestsAssumption DEF Senders
      <3>2. pc[q] \in {"idle", "ended"}
        BY <1>1, <2>2, <3>1 DEF IInv, OwnersAt
      <3> QED BY <1>2, <3>2, NotTaken
    <2> QED BY <1>2, <1>3, <2>1, <2>2
  <1>4. CASE r \in Runs
    BY <1>1, <1>2, <1>4, RunKeeps, StillTaken
  <1> QED BY <1>3, <1>4 DEF Requests

LEMMA EnvironmentTaken ==
    ASSUME IInv, LInv, Next, AddNote \/ DeleteNote \/ Annotate \/ Keep \/ ZoteroAnnotate \/ Tidy \/ Crash
    PROVE  \A q \in Senders : TakenAt(q)'
  <1>1. CASE Crash
    <2>1. \A q \in Senders : pc'[q] \in {"idle", "ended"}
      BY <1>1 DEF Crash, Requests, Serialized
    <2> QED BY <2>1, NotTaken
  <1>2. CASE AddNote \/ DeleteNote \/ Annotate \/ Keep \/ ZoteroAnnotate \/ Tidy
    <2>1. UNCHANGED <<pc, local, record, markdown, mailed>>
      BY <1>2 DEF AddNote, DeleteNote, Annotate, Keep, ZoteroAnnotate, Tidy, files, filing, zotero
    <2>2. Wanted' \subseteq Wanted
      <3>1. CASE AddNote \/ DeleteNote
        <4>1. "markdown" \notin Notes
          BY NotesAssumption DEF Kinds
        <4> QED BY <3>1, <4>1, <2>1 DEF AddNote, DeleteNote, Wanted, IInv, TypeOK
      <3>2. CASE Annotate \/ Keep \/ ZoteroAnnotate \/ Tidy
        BY <2>1, <3>2 DEF Annotate, Keep, ZoteroAnnotate, Tidy, filing, Wanted
      <3> QED BY <1>2, <3>1, <3>2
    <2> QED BY <2>1, <2>2, StillTaken DEF LInv, StaysMailed
  <1> QED BY <1>1, <1>2

\* A send reads what it will go by, under its lock.
LEMMA ReadTaken ==
    ASSUME IInv, LInv, NEW r \in Senders, Begin(r) \/ Check(r) \/ Require(r) \/ Take(r)
    PROVE  TakenAt(r)'
  <1>0. /\ r \in Requests /\ r \notin Deletes /\ TakenAt(r)
        /\ pc \in [Requests -> Points] /\ local \in [Requests -> Locals] /\ local[r] \in Locals
        /\ "markdown" \notin Notes /\ late \subseteq Notes \cup {"markdown"} /\ notes \subseteq Notes
        /\ (r \in Sends \cup Extracts \/ r \in PdfOnlys)
    BY RequestsAssumption, NotesAssumption DEF Requests, Serialized, Senders, LInv, IInv, TypeOK, Kinds
  <1>1. CASE End(r)
    <2>1. pc'[r] = "ended"
      BY <1>0, <1>1 DEF End, Go
    <2> QED BY <2>1, NotTaken
  <1>2. CASE Begin(r) /\ ~End(r)
    <2> DEFINE new == [Fresh EXCEPT !.found = markdown # None, !.leaving = r \in Deletes,
                                      !.chain = r \in Extracts /\ markdown = None]
    <2>1. new.found = (markdown # None)
      BY DEF Fresh
    <2> HIDE DEF new
    <2>2. Holds(r, "check", new) /\ UNCHANGED <<markdown, notes>>
      BY <1>0, <1>2 DEF Begin, files, new
    <2>3. pc'[r] = "check" /\ local'[r].found = (markdown # None) /\ UNCHANGED <<markdown, notes>>
      BY <1>0, <2>1, <2>2 DEF Holds, Go
    <2>4. FoundAt(r)'
      BY <1>0, <2>3 DEF FoundAt, Wanted
    <2> QED BY <2>3, <2>4 DEF TakenAt, OwesAt, AloneAt, SentAt, Going, Stepping
  <1>3. CASE Check(r) /\ ~End(r)
    <2>1. /\ pc[r] = "check" /\ ~Refused(r) /\ late' = late \ Notes
          /\ pc'[r] = IF r \in PdfOnlys THEN "ready" ELSE "require"
          /\ UNCHANGED <<local, record, notes, markdown>>
      BY <1>0, <1>3 DEF Check, Go, files
    <2>2. local[r].record = None /\ local[r].todo = {}
      BY <1>0, <2>1 DEF IInv, FitsAt
    <2>3. FoundAt(r)' /\ SentAt(r)'
      BY <2>1 DEF FoundAt, SentAt
    <2>4. OwesAt(r)'
      <3>1. SUFFICES ASSUME r \in Sends \cup Extracts
                     PROVE  ItemOnly(record)
        BY <1>0, <2>1, <2>2, RequestsAssumption DEF OwesAt, Going, Stepping, ItemOnly
      <3>2. CASE record # None /\ record.method = "standalone"
        <4>1. PendingSteps(record, local[r].found, notes) = {}
          BY <3>2 DEF PendingSteps, StepsOwed, IInv, TrueRecord
        <4> QED BY <2>1, <3>1, <3>2, <4>1, RequestsAssumption DEF Refused
      <3> QED BY <3>2 DEF ItemOnly, IInv, TypeOK, Records
    <2>5. AloneAt(r)'
      <3>1. CASE r \in PdfOnlys
        <4>1. record = None /\ notes = {} /\ ~local[r].found
          BY <2>1, <3>1, RequestsAssumption DEF Refused
        <4>2. "markdown" \notin Wanted
          BY <1>0, <2>1, <4>1 DEF TakenAt, FoundAt
        <4>3. Wanted' = {}
          BY <1>0, <2>1, <4>1, <4>2 DEF Wanted
        <4> QED BY <2>1, <2>2, <3>1, <4>3 DEF AloneAt
      <3> QED BY <3>1 DEF AloneAt
    <2> QED BY <2>3, <2>4, <2>5 DEF TakenAt
  <1>4. CASE Require(r) /\ ~End(r)
    <2>1. /\ pc[r] = "require" /\ pc'[r] = "take" /\ late' = late \ {"markdown"}
          /\ local'[r] = [local[r] EXCEPT !.found = markdown # None]
          /\ UNCHANGED <<record, markdown, notes>>
      BY <1>0, <1>4 DEF Require, Holds, Go, files
    <2>2. local'[r].found = (markdown # None) /\ local'[r].record = local[r].record
      BY <1>0, <2>1 DEF Locals
    <2>3. FoundAt(r)'
      BY <1>0, <2>1, <2>2 DEF FoundAt, Wanted
    <2> QED BY <1>0, <2>1, <2>2, <2>3 DEF TakenAt, OwesAt, AloneAt, SentAt, Going, Stepping, ItemOnly
  <1>5. CASE Take(r)
    <2> DEFINE known == IF record = None THEN [method |-> "item", steps |-> {}] ELSE record
               todo == PendingSteps(known, local[r].found, notes)
    <2>1. /\ pc[r] = "take" /\ pc'[r] = "ready" /\ late' = late \ Notes
          /\ local'[r] = [local[r] EXCEPT !.record = record, !.todo = todo]
          /\ UNCHANGED <<record, notes, markdown>>
      BY <1>0, <1>5 DEF Take, Holds, Go, files
    <2>2. local'[r].record = record /\ local'[r].todo = todo
      BY <1>0, <2>1 DEF Locals
    <2>3. r \in Sends \cup Extracts
      BY <1>0, <2>1 DEF IInv, RolesAt
    <2>4. ItemOnly(record)
      BY <1>0, <2>1, <2>3 DEF TakenAt, OwesAt
    <2>5. /\ known.method = "item" /\ known.steps = Recorded(record)
          /\ {"fields", "pdf"} \cup notes \cup (IF local[r].found THEN {"markdown"} ELSE {})
                \subseteq known.steps \cup todo
      BY <2>4 DEF ItemOnly, Recorded, PendingSteps, StepsOwed
    <2> HIDE DEF known, todo
    <2>6. Wanted' \subseteq notes \cup (IF local[r].found THEN {"markdown"} ELSE {})
      BY <1>0, <2>1 DEF TakenAt, FoundAt, Wanted
    <2>7. OwesAt(r)'
      BY <2>1, <2>2, <2>4, <2>5, <2>6 DEF OwesAt, ItemOnly, Recorded
    <2> QED BY <2>1, <2>3, <2>7, RequestsAssumption DEF TakenAt, FoundAt, AloneAt, SentAt
  <1> QED BY <1>0, <1>1, <1>2, <1>3, <1>4, <1>5

\* It goes on to a place where it needs only that its record is of the item.
LEMMA CarriesTaken ==
    ASSUME NEW r \in Senders, TakenAt(r), pc[r] \notin {"idle", "check", "ended"},
           pc'[r] \notin Going \cup {"check", "take", "chain", "plugin", "leave"},
           record' = record, local'[r].record = local[r].record
    PROVE  TakenAt(r)'
  <1>1. pc'[r] \notin {"check", "take", "chain", "plugin", "leave", "standalone"}
    BY DEF Going
  <1> QED BY <1>1 DEF TakenAt, FoundAt, OwesAt, AloneAt, SentAt, ItemOnly

\* It goes on with its steps as they are.
LEMMA GoingTaken ==
    ASSUME NEW r \in Senders, TakenAt(r), pc[r] \in Going, pc'[r] \in Going,
           record' = record, Wanted' = Wanted,
           local'[r].record = local[r].record, local'[r].todo = local[r].todo,
           r \in PdfOnlys => pc'[r] \notin {"import", "save", "step"},
           r \in Sends \cup Extracts => pc'[r] # "standalone"
    PROVE  TakenAt(r)'
  BY DEF TakenAt, FoundAt, OwesAt, AloneAt, SentAt, ItemOnly, Recorded, Going, Stepping

\* A step of the item is done.
LEMMA DoneTaken ==
    ASSUME IInv, NEW r \in Senders, TakenAt(r), NEW s \in Steps,
           pc[r] \in Stepping, s \in local[r].todo, Done(r, s), record' = record, Wanted' = Wanted
    PROVE  TakenAt(r)'
  <1>0. r \in Requests /\ local[r].record \in Records /\ local[r].record # None
    BY NoneAssumption DEF IInv, TypeOK, Locals, FitsAt, Requests, Serialized
  <1>1. /\ pc'[r] = "save" /\ local'[r].record # None
        /\ local'[r].record = [local[r].record EXCEPT !.steps = @ \cup {s}]
        /\ local'[r].todo = local[r].todo \ {s}
    BY <1>0, DoneEffect DEF IInv
  <1>2. /\ local'[r].record.method = local[r].record.method
        /\ local'[r].record.steps = local[r].record.steps \cup {s}
    BY <1>0, <1>1 DEF Records
  <1>3. r \notin PdfOnlys
    BY DEF TakenAt, AloneAt, Going
  <1>4. OwesAt(r)'
    <2>1. pc[r] \in Going /\ pc[r] \notin {"idle", "check", "ended"}
      BY DEF Going, Stepping
    <2> QED BY <1>0, <1>1, <1>2, <2>1 DEF TakenAt, OwesAt, ItemOnly, Recorded
  <1> QED BY <1>1, <1>3, <1>4 DEF TakenAt, FoundAt, AloneAt, SentAt

\* It begins its steps.
LEMMA StartTaken ==
    ASSUME IInv, LInv, NEW r \in Senders, Ready(r) \/ Import(r) \/ Standalone(r) \/ Save(r)
    PROVE  TakenAt(r)'
  <1>0. /\ r \in Requests /\ TakenAt(r) /\ FitsAt(r)
        /\ pc \in [Requests -> Points] /\ local \in [Requests -> Locals] /\ local[r] \in Locals
        /\ (r \in Sends \cup Extracts <=> r \notin PdfOnlys)
    BY RequestsAssumption DEF Requests, Serialized, Senders, LInv, IInv, TypeOK
  <1>1. CASE End(r)
    <2>1. pc'[r] = "ended"
      BY <1>0, <1>1 DEF End, Go
    <2> QED BY <2>1, NotTaken
  <1>2. CASE Ready(r) /\ ~End(r)
    <2>1. /\ pc[r] = "ready" /\ UNCHANGED <<local, record>> /\ Wanted' = Wanted
          /\ pc'[r] = IF r \in PdfOnlys THEN "standalone"
                      ELSE IF local[r].record = None THEN "import" ELSE "save"
      BY <1>0, <1>2 DEF Ready, Go, files, filing, Wanted
    <2> QED BY <1>0, <2>1, GoingTaken DEF Going
  <1>3. CASE Import(r) /\ ~End(r)
    <2>1. /\ pc[r] = "import" /\ pc'[r] = "save" /\ record' = record /\ Wanted' = Wanted
          /\ local'[r] = [local[r] EXCEPT !.record = [method |-> "item", steps |-> {}]]
      BY <1>0, <1>3 DEF Import, Asked, Holds, Go, files, filing, Wanted
    <2>2. /\ local'[r].record = [method |-> "item", steps |-> {}] /\ local'[r].todo = local[r].todo
          /\ local[r].record = None
      BY <1>0, <2>1 DEF Locals, FitsAt
    <2>3. r \notin PdfOnlys
      BY <1>0, <2>1 DEF TakenAt, AloneAt, Going
    <2>4. OwesAt(r)'
      BY <1>0, <2>1, <2>2 DEF TakenAt, OwesAt, ItemOnly, Recorded, Going
    <2> QED BY <2>1, <2>3, <2>4 DEF TakenAt, FoundAt, AloneAt, SentAt
  <1>4. CASE Standalone(r) /\ ~End(r)
    <2>1. /\ pc[r] = "standalone" /\ pc'[r] = "save" /\ Wanted' = Wanted
          /\ local'[r] = [local[r] EXCEPT !.record = [method |-> "standalone", steps |-> {"pdf"}]]
      BY <1>0, <1>4 DEF Standalone, Asked, Holds, Go, files, filing, Wanted
    <2>2. /\ local'[r].record = [method |-> "standalone", steps |-> {"pdf"}]
          /\ local'[r].todo = local[r].todo
      BY <1>0, <2>1 DEF Locals
    <2>3. r \in PdfOnlys
      BY <1>0, <2>1 DEF TakenAt, OwesAt
    <2>4. local'[r].record # None
      BY <2>2, NoneAssumption DEF Records, Steps, Kinds
    <2>5. AloneAt(r)'
      BY <1>0, <2>1, <2>2, <2>3, <2>4 DEF TakenAt, AloneAt, Going
    <2> QED BY <1>0, <2>1, <2>3, <2>5 DEF TakenAt, FoundAt, OwesAt, SentAt
  <1>5. CASE Save(r) /\ ~End(r)
    <2>1. /\ pc[r] = "save" /\ pc'[r] = "step" /\ record' = local[r].record /\ Wanted' = Wanted
          /\ local' = local
      BY <1>0, <1>5 DEF Save, Go, files, Wanted
    <2>2. OwesAt(r)' /\ AloneAt(r)'
      BY <1>0, <2>1 DEF TakenAt, OwesAt, AloneAt, Going, Stepping, ItemOnly, Recorded
    <2> QED BY <2>1, <2>2 DEF TakenAt, FoundAt, SentAt
  <1> QED BY <1>1, <1>2, <1>3, <1>4, <1>5

\* It asks for a step, or looks for what the step replaces.
LEMMA AskTaken ==
    ASSUME IInv, LInv, NEW r \in Senders,
           Write(r) \/ Look(r) \/ Count(r) \/ Attach(r) \/ Replace(r)
    PROVE  TakenAt(r)'
  <1>0. /\ r \in Requests /\ TakenAt(r) /\ FitsAt(r)
        /\ pc \in [Requests -> Points] /\ local \in [Requests -> Locals] /\ local[r] \in Locals
        /\ "pdf" \in Steps
    BY RequestsAssumption DEF Requests, Serialized, Senders, LInv, IInv, TypeOK, Steps, Kinds
  <1>1. CASE End(r)
    <2>1. pc'[r] = "ended"
      BY <1>0, <1>1 DEF End, Go
    <2> QED BY <2>1, NotTaken
  <1>2. record' = record /\ Wanted' = Wanted
    BY DEF Write, Look, Count, Attach, Replace, files, filing, Wanted
  <1>3. CASE \E s \in Steps : pc[r] \in Stepping /\ s \in local[r].todo /\ Done(r, s)
    BY <1>0, <1>2, <1>3, DoneTaken
  <1>4. CASE /\ pc[r] \in Stepping /\ "pdf" \in local[r].todo
             /\ pc'[r] \in {"count", "attach", "replace"}
             /\ local'[r].record = local[r].record /\ local'[r].todo = local[r].todo
    <2>1. r \notin PdfOnlys
      BY <1>0, <1>4 DEF TakenAt, AloneAt, Going
    <2> QED BY <1>0, <1>2, <1>4, <2>1, GoingTaken DEF Going, Stepping
  <1>5. CASE Write(r)
    BY <1>1, <1>3, <1>5 DEF Write, Asked, Due, Stepping
  <1>6. CASE Look(r)
    <2>1. ASSUME NEW to \in {"count", "attach"}, NEW p \in Pdfs \cup {None},
                 Holds(r, to, [local[r] EXCEPT !.old = p])
          PROVE  /\ pc'[r] = to /\ local'[r].record = local[r].record
                 /\ local'[r].todo = local[r].todo
      BY <1>0, <2>1 DEF Holds, Go, Locals
    <2>2. pc[r] = "step" /\ "pdf" \in local[r].todo
      BY <1>6 DEF Look, Due
    <2> QED BY <1>1, <1>4, <1>6, <2>1, <2>2 DEF Look, Live, Stepping
  <1>7. CASE Count(r)
    <2>1. pc[r] = "count" /\ "pdf" \in local[r].todo
      BY <1>0, <1>7 DEF Count, FitsAt, Stepping
    <2>2. CASE Done(r, "pdf")
      BY <1>0, <1>3, <2>1, <2>2 DEF Stepping
    <2>3. CASE Go(r, "attach") /\ UNCHANGED local
      BY <1>0, <1>4, <2>1, <2>3 DEF Go, Stepping
    <2> QED BY <1>1, <1>7, <2>2, <2>3 DEF Count
  <1>8. CASE Attach(r)
    <2>1. pc[r] = "attach" /\ "pdf" \in local[r].todo
      BY <1>0, <1>8 DEF Attach, FitsAt, Stepping
    <2>2. CASE Done(r, "pdf")
      BY <1>0, <1>3, <2>1, <2>2 DEF Stepping
    <2>3. CASE Go(r, "replace") /\ UNCHANGED local
      BY <1>0, <1>4, <2>1, <2>3 DEF Go, Stepping
    <2> QED BY <1>1, <1>8, <2>2, <2>3 DEF Attach, Asked
  <1>9. CASE Replace(r)
    <2>1. pc[r] = "replace" /\ "pdf" \in local[r].todo
      BY <1>0, <1>9 DEF Replace, FitsAt, Stepping
    <2> QED BY <1>0, <1>1, <1>3, <1>9, <2>1 DEF Replace, Asked, Stepping
  <1> QED BY <1>5, <1>6, <1>7, <1>8, <1>9

\* Its steps are done: nothing wanted is left.
LEMMA FinishedTaken ==
    ASSUME IInv, LInv, NEW r \in Senders, Finished(r)
    PROVE  TakenAt(r)'
  <1>0. /\ r \in Requests /\ TakenAt(r) /\ FitsAt(r) /\ TrueRecord(record) /\ Mailed
        /\ pc \in [Requests -> Points] /\ record \in Records \cup {None}
        /\ (r \in Sends \cup Extracts \/ r \in PdfOnlys)
    BY DEF Requests, Serialized, Senders, LInv, IInv, TypeOK
  <1>1. /\ pc[r] = "step" /\ local[r].todo = {} /\ pc'[r] \in {"chain", "leave"}
        /\ UNCHANGED <<record, local, did, pdfs, mailed>> /\ Wanted' = Wanted
    BY <1>0 DEF Finished, Go, files, filing, zotero, Wanted
  <1>2. record # None /\ local[r].record = record /\ record \in Records
    BY <1>0, <1>1 DEF FitsAt, Stepping
  <1>3. Sent
    <2>1. CASE r \in Sends \cup Extracts
      <3>1. record.method = "item" /\ Wanted \cup {"fields", "pdf"} \subseteq record.steps
        BY <1>0, <1>1, <1>2, <2>1 DEF TakenAt, OwesAt, ItemOnly, Recorded, Going, Stepping
      <3>2. "pdf" \notin Wanted
        BY WantedSteps
      <3>3. "markdown" \in Wanted => mailed # "no"
        <4>1. "markdown" \in Wanted => markdown # None
          BY NotesAssumption DEF Wanted, IInv, TypeOK, Kinds
        <4> QED BY <1>0, <1>2, <3>1, <4>1 DEF Mailed, Named
      <3> QED BY <1>0, <1>2, <3>1, <3>2, <3>3 DEF TrueRecord, Sent
    <2>2. CASE r \in PdfOnlys
      <3>1. Wanted = {} /\ record.method = "standalone"
        BY <1>0, <1>1, <1>2, <2>2 DEF TakenAt, AloneAt, Going, Stepping
      <3> QED BY <1>2, <3>1 DEF Sent
    <2> QED BY <1>0, <2>1, <2>2
  <1>4. Sent'
    BY <1>1, <1>3 DEF Sent, Live
  <1>5. OwesAt(r)'
    BY <1>0, <1>1 DEF TakenAt, OwesAt, ItemOnly, Going, Stepping
  <1> QED BY <1>1, <1>4, <1>5 DEF TakenAt, FoundAt, AloneAt, SentAt, Going, Stepping

\* It extracts the item before it takes it away.
LEMMA PluginTaken ==
    ASSUME IInv, LInv, NEW r \in Senders, Chain(r) \/ Plugin(r)
    PROVE  TakenAt(r)'
  <1>0. /\ r \in Requests /\ TakenAt(r)
        /\ pc \in [Requests -> Points] /\ local \in [Requests -> Locals] /\ local[r] \in Locals
    BY DEF Requests, Serialized, LInv, IInv, TypeOK
  <1>1. CASE End(r)
    <2>1. pc'[r] = "ended"
      BY <1>0, <1>1 DEF End, Go
    <2> QED BY <2>1, NotTaken
  <1>2. CASE ~End(r)
    <2>1. /\ pc[r] \in {"chain", "plugin"} /\ pc'[r] \in {"plugin", "leave", "place"}
          /\ UNCHANGED <<record, did, pdfs, mailed>> /\ Wanted' = Wanted
          /\ local'[r].record = local[r].record
      <3>1. CASE Chain(r)
        BY <1>0, <3>1 DEF Chain, Holds, Go, files, filing, zotero, Wanted, Locals
      <3>2. CASE Plugin(r)
        BY <1>0, <1>2, <3>2 DEF Plugin, Go, files, filing, zotero, Wanted
      <3> QED BY <3>1, <3>2
    <2>2. Sent'
      BY <1>0, <2>1 DEF TakenAt, SentAt, Sent, Live
    <2>3. OwesAt(r)'
      BY <1>0, <2>1 DEF TakenAt, OwesAt, ItemOnly, Going, Stepping
    <2> QED BY <2>1, <2>2, <2>3 DEF TakenAt, FoundAt, AloneAt, SentAt, Going, Stepping
  <1> QED BY <1>1, <1>2

\* It places an extraction, or takes the item away.
LEMMA PlaceTaken ==
    ASSUME IInv, LInv, NEW r \in Senders,
           \/ Lock(r) \/ ClearMarkdown(r) \/ ClearArtifacts(r) \/ MoveArtifacts(r)
           \/ MoveMarkdown(r) \/ Leave(r) \/ Remove(r) \/ TrashPdf(r) \/ DropFiling(r)
    PROVE  TakenAt(r)'
  <1>0. /\ r \in Requests /\ r \notin Runs /\ TakenAt(r)
        /\ pc \in [Requests -> Points] /\ local \in [Requests -> Locals] /\ local[r] \in Locals
    BY RequestsAssumption DEF Requests, Serialized, Senders, LInv, IInv, TypeOK
  <1>1. CASE End(r)
    <2>1. pc'[r] = "ended"
      BY <1>0, <1>1 DEF End, Go
    <2> QED BY <2>1, NotTaken
  <1>2. CASE ~End(r)
    <2> DEFINE To == {"clear", "clearArtifacts", "trash", "artifacts", "markdown", "require",
                      "remove", "wait", "drop"}
               Goes == /\ pc[r] \notin {"idle", "check", "ended"} /\ pc'[r] \in To
                       /\ record' = record /\ local'[r].record = local[r].record
    <2>1. Lock(r) => Goes
      BY <1>0 DEF Lock, Go, filing
    <2>2. ClearMarkdown(r) \/ ClearArtifacts(r) => Goes
      BY <1>0, <1>2 DEF ClearMarkdown, ClearArtifacts, Go, filing
    <2>3. MoveArtifacts(r) \/ MoveMarkdown(r) => Goes
      BY <1>0, <1>2 DEF MoveArtifacts, MoveMarkdown, Go, filing
    <2>4. Leave(r) \/ Remove(r) => Goes
      BY <1>0, <1>2 DEF Leave, Remove, Holds, Go, filing, Locals
    <2>5. TrashPdf(r) => Goes
      BY <1>0, <1>2 DEF TrashPdf, Go, filing
    <2>6. ~DropFiling(r)
      BY <1>2 DEF DropFiling
    <2>7. Goes
      BY <2>1, <2>2, <2>3, <2>4, <2>5, <2>6
    <2> QED BY <1>0, <2>7, CarriesTaken DEF Going, Stepping
  <1> QED BY <1>1, <1>2

-----------------------------------------------------------------------------
(* A record names the Markdown only once it is sent.                       *)

Names(rec) == rec # None /\ "markdown" \in rec.steps

LEMMA Unnamed ==
    ASSUME NEW r \in Requests, \A q \in Requests : q # r => local'[q] = local[q],
           Names(record') => Names(record) \/ Names(local[r].record),
           Names(local'[r].record) => Names(record) \/ Names(local[r].record)
    PROVE  Named' => Named
  <1>1. Named <=> Names(record) \/ \E q \in Requests : Names(local[q].record)
    BY DEF Named, Names
  <1>2. Named' <=> Names(record') \/ \E q \in Requests : Names(local'[q].record)
    BY DEF Named, Names
  <1> QED BY <1>1, <1>2

\* A request that ends, or holds what it held, makes no record name more.
LEMMA UnnamedStep ==
    ASSUME IInv, NEW r \in Requests, \A q \in Requests : q # r => local'[q] = local[q],
           End(r) \/ UNCHANGED local, record' \in {record, None, local[r].record}
    PROVE  Named' => Named
  <1>1. Names(record') => Names(record) \/ Names(local[r].record)
    BY DEF Names
  <1>2. Names(local'[r].record) => Names(record) \/ Names(local[r].record)
    BY FreshTyped DEF Names, End, IInv, TypeOK
  <1> QED BY <1>1, <1>2, Unnamed

\* Nor does one whose new record does not name the Markdown, or is a copy.
LEMMA RecordStep ==
    ASSUME IInv, NEW r \in Requests, \A q \in Requests : q # r => local'[q] = local[q],
           record' = record, local'[r].record # None => "markdown" \notin local'[r].record.steps
    PROVE  Named' => Named
  BY Unnamed DEF Names

LEMMA CopyStep ==
    ASSUME IInv, NEW r \in Requests, \A q \in Requests : q # r => local'[q] = local[q],
           record' = record, local'[r].record \in {record, local[r].record}
    PROVE  Named' => Named
  BY Unnamed DEF Names

LEMMA DoneNames ==
    ASSUME IInv, NEW r \in Requests, \A q \in Requests : q # r => local'[q] = local[q],
           NEW s \in Steps \ {"markdown"}, local[r].record # None, Done(r, s), record' = record
    PROVE  Named' => Named
  <1>1. local'[r].record = [local[r].record EXCEPT !.steps = @ \cup {s}]
    BY DoneEffect DEF IInv
  <1>2. local[r].record \in Records
    BY DEF IInv, TypeOK, Locals
  <1>3. Names(local'[r].record) => Names(local[r].record)
    BY <1>1, <1>2 DEF Names, Records
  <1> QED BY <1>3, Unnamed

LEMMA NamesKept ==
    ASSUME IInv, NEW r \in Requests, Begin(r) \/ Lock(r) \/ Moves(r)
    PROVE  (Named' => Named) \/ mailed' = "yes"
  <1>0. /\ \A q \in Requests : q # r => local'[q] = local[q]
        /\ local \in [Requests -> Locals] /\ local[r] \in Locals
    BY OneMoves DEF IInv, TypeOK
  <1>1. CASE Lock(r) \/ Check(r) \/ Ready(r) \/ Save(r) \/ Finished(r) \/ Run(r) \/ Plugin(r)
             \/ Remove(r) \/ DropFiling(r) \/ Disconnect(r)
    <2>1. (End(r) \/ UNCHANGED local) /\ record' \in {record, None, local[r].record}
      BY <1>1 DEF Lock, Check, Ready, Save, Finished, Run, Plugin, Remove, DropFiling, Disconnect, filing
    <2> QED BY <1>0, <2>1, UnnamedStep
  <1>2. CASE ClearMarkdown(r) \/ ClearArtifacts(r) \/ MoveArtifacts(r) \/ MoveMarkdown(r)
             \/ TrashPdf(r)
    <2>1. (End(r) \/ UNCHANGED local) /\ record' = record
      BY <1>2 DEF ClearMarkdown, ClearArtifacts, MoveArtifacts, MoveMarkdown, TrashPdf, filing
    <2> QED BY <1>0, <2>1, UnnamedStep
  <1>3. CASE Begin(r)
    <2>1. record' = record
      BY <1>3 DEF Begin
    <2>2. CASE End(r)
      BY <1>0, <2>1, <2>2, UnnamedStep
    <2>3. CASE ~End(r)
      <3> DEFINE new == [Fresh EXCEPT !.found = markdown # None, !.leaving = r \in Deletes,
                                        !.chain = r \in Extracts /\ markdown = None]
      <3>1. new.record = None
        BY DEF Fresh
      <3> HIDE DEF new
      <3>2. local'[r] = new
        BY <1>0, <1>3, <2>3 DEF Begin, Holds, new
      <3> QED BY <1>0, <2>1, <3>1, <3>2, RecordStep
    <2> QED BY <2>2, <2>3
  <1>4. CASE Require(r) \/ Take(r) \/ Chain(r) \/ Leave(r) \/ Look(r)
    <2>1. record' = record
      BY <1>4 DEF Require, Take, Chain, Leave, Look, filing
    <2>2. CASE End(r)
      BY <1>0, <2>1, <2>2, UnnamedStep
    <2>3. CASE ~End(r)
      <3>1. CASE Require(r) \/ Chain(r) \/ Leave(r)
        <4>1. local'[r].record = local[r].record
          BY <1>0, <2>3, <3>1 DEF Require, Chain, Leave, Holds, Locals
        <4> QED BY <1>0, <2>1, <4>1, CopyStep
      <3>2. CASE Take(r)
        <4>1. local'[r].record = record
          BY <1>0, <3>2 DEF Take, Holds, Locals
        <4> QED BY <1>0, <2>1, <4>1, CopyStep
      <3>3. CASE Look(r)
        <4>1. local'[r].record = local[r].record
          BY <1>0, <2>3, <3>3 DEF Look, Holds, Locals
        <4> QED BY <1>0, <2>1, <4>1, CopyStep
      <3> QED BY <1>4, <3>1, <3>2, <3>3
    <2> QED BY <2>2, <2>3
  <1>5. CASE Import(r) \/ Standalone(r)
    <2>1. record' = record
      BY <1>5 DEF Import, Standalone, filing
    <2>2. CASE End(r)
      BY <1>0, <2>1, <2>2, UnnamedStep
    <2>3. CASE ~End(r)
      <3>1. local'[r].record.steps \in {{}, {"pdf"}}
        BY <1>0, <1>5, <2>3 DEF Import, Standalone, Asked, Holds, Locals
      <3> QED BY <1>0, <2>1, <3>1, RecordStep
    <2> QED BY <2>2, <2>3
  <1>6. CASE Count(r) \/ Attach(r) \/ Replace(r)
    <2>1. record' = record /\ local[r].record # None
      BY <1>6 DEF Count, Attach, Replace, filing, IInv, FitsAt, Stepping
    <2>2. End(r) \/ UNCHANGED local \/ Done(r, "pdf")
      BY <1>6 DEF Count, Attach, Replace, Asked
    <2> QED BY <1>0, <2>1, <2>2, UnnamedStep, DoneNames DEF Steps, Kinds
  <1>7. CASE Write(r)
    <2>1. PICK s \in Steps \ {"pdf"} :
            /\ pc[r] = "step" /\ UNCHANGED filing
            /\ End(r) \/ (Made(s) /\ Done(r, s))
      BY <1>7 DEF Write, Asked
    <2>2. record' = record /\ local[r].record # None
      BY <2>1 DEF filing, IInv, FitsAt, Stepping
    <2>3. s = "markdown" /\ Made(s) => mailed' = "yes"
      BY DEF Made
    <2> QED BY <1>0, <2>1, <2>2, <2>3, UnnamedStep, DoneNames
  <1> QED BY <1>1, <1>2, <1>3, <1>4, <1>5, <1>6, <1>7 DEF Moves

\* The Markdown that lies there was mailed, or is about to be, or came again.
LEMMA MarkdownMoves ==
    ASSUME Next
    PROVE  \/ markdown' \in {markdown, None} /\ mailed' \in {mailed, "yes"}
           \/ mailed' = Placed
  <1>1. ASSUME NEW r \in Requests, Begin(r) \/ Lock(r) \/ Check(r) \/ Require(r) \/ Take(r)
                                   \/ Ready(r) \/ Import(r) \/ Save(r) \/ Finished(r)
        PROVE  markdown' = markdown /\ mailed' = mailed
    BY <1>1 DEF Begin, Lock, Check, Require, Take, Ready, Import, Asked, Save, Finished, files, zotero
  <1>2. ASSUME NEW r \in Requests, Look(r) \/ Count(r) \/ Run(r) \/ Chain(r) \/ Plugin(r)
                                   \/ Leave(r) \/ Remove(r) \/ DropFiling(r) \/ Disconnect(r)
        PROVE  markdown' = markdown /\ mailed' = mailed
    BY <1>2 DEF Look, Count, Run, Chain, Plugin, Leave, Remove, DropFiling, Disconnect, files, zotero
  <1>3. ASSUME NEW r \in Requests, Write(r) \/ Attach(r) \/ Replace(r) \/ Standalone(r)
        PROVE  markdown' = markdown /\ mailed' \in {mailed, "yes"}
    BY <1>3 DEF Write, Attach, Replace, Standalone, Asked, Made, files, zotero
  <1>4. ASSUME NEW r \in Requests, ClearMarkdown(r) \/ ClearArtifacts(r) \/ MoveArtifacts(r)
                                   \/ TrashPdf(r)
        PROVE  markdown' \in {markdown, None} /\ mailed' = mailed
    BY <1>4 DEF ClearMarkdown, ClearArtifacts, MoveArtifacts, TrashPdf, Cleared, zotero
  <1>5. ASSUME NEW r \in Requests, MoveMarkdown(r)
        PROVE  (markdown' = markdown /\ mailed' = mailed) \/ mailed' = Placed
    BY <1>5 DEF MoveMarkdown
  <1>6. ASSUME AddNote \/ DeleteNote \/ Annotate \/ Keep \/ Crash \/ ZoteroAnnotate \/ Tidy
        PROVE  markdown' = markdown /\ mailed' = mailed
    BY <1>6 DEF AddNote, DeleteNote, Annotate, Keep, Crash, ZoteroAnnotate, Tidy, files, zotero
  <1> QED BY <1>1, <1>2, <1>3, <1>4, <1>5, <1>6 DEF Next, Moves

LEMMA MailedKept ==
    ASSUME IInv, Mailed, Next
    PROVE  Mailed'
  <1>1. (Named' => Named) \/ mailed' = "yes"
    <2>1. CASE Crash
      <3>1. record' = record /\ \A q \in Requests : local'[q].record = None
        BY <2>1, FreshTyped DEF Crash, filing
      <3> QED BY <3>1 DEF Named
    <2>2. CASE AddNote \/ DeleteNote \/ Annotate \/ Keep \/ ZoteroAnnotate \/ Tidy
      <3>1. record' = record /\ local' = local
        BY <2>2 DEF AddNote, DeleteNote, Annotate, Keep, ZoteroAnnotate, Tidy, filing
      <3> QED BY <3>1 DEF Named
    <2> QED BY <2>1, <2>2, NamesKept DEF Next
  <1> QED BY <1>1, MarkdownMoves DEF Mailed, Placed

-----------------------------------------------------------------------------

LEMMA InitLInv == Init => LInv
  BY NotTaken DEF Init, LInv, Mailed, TakenAt, FoundAt, OwesAt, AloneAt, SentAt, Going, Stepping,
                  Requests, Serialized

LEMMA NextLInv == IInv /\ LInv /\ [Next]_vars => LInv'
  <1> SUFFICES ASSUME IInv, LInv, [Next]_vars PROVE LInv'
    OBVIOUS
  <1>1. CASE UNCHANGED vars
    BY <1>1 DEF vars, files, filing, zotero, LInv, TakenAt, FoundAt, OwesAt, AloneAt, SentAt,
                ItemOnly, Recorded, Wanted, Sent, Live, Mailed, Named
  <1>2. ASSUME Next, NEW r \in Requests, Begin(r) \/ Lock(r) \/ Moves(r)
        PROVE  LInv'
    <2>1. ASSUME NEW q \in Senders, q # r
          PROVE  TakenAt(q)'
      BY <1>2, <2>1, OtherTaken
    <2>2. ASSUME r \in Senders
          PROVE  TakenAt(r)'
      <3>1. ~Run(r) /\ ~Disconnect(r)
        BY <2>2, RequestsAssumption DEF Run, Disconnect, Senders
      <3> QED BY <1>2, <2>2, <3>1, ReadTaken, StartTaken, FinishedTaken, AskTaken, PluginTaken,
                 PlaceTaken DEF Moves
    <2> QED BY <1>2, <2>1, <2>2, MailedKept DEF LInv
  <1>3. ASSUME Next, AddNote \/ DeleteNote \/ Annotate \/ Keep \/ ZoteroAnnotate \/ Tidy \/ Crash
        PROVE  LInv'
    BY <1>3, EnvironmentTaken, MailedKept DEF LInv
  <1> QED BY <1>1, <1>2, <1>3 DEF Next

LEMMA LeavesWhenSent ==
    ASSUME IInv, LInv, NEW r \in Senders, pc[r] = "leave"
    PROVE  /\ record # None /\ (record.method = "item" => did["fields"] > 0 /\ Live # {})
           /\ \A n \in notes \ late : did[n] > 0
           /\ markdown # None /\ "markdown" \notin late => mailed # "no"
  <1>1. "markdown" \notin notes
    BY NotesAssumption DEF IInv, TypeOK, Kinds
  <1> QED BY <1>1 DEF LInv, TakenAt, SentAt, Sent, Wanted

\* A send takes the item away only with every note sent that was there when it last
\* read the filing, and with the Markdown that lies there sent, unless that came since
\* or came again after a record had named one, however many sends, plugins, notes,
\* disconnects and crashes there were before (send_item, done_by).
THEOREM LeavesSentHolds == Spec => LeavesSent
  <1>1. IInv /\ LInv /\ [Next]_vars =>
          [\A r \in Senders :
              pc[r] = "leave" /\ pc'[r] = "remove" =>
                  /\ record # None /\ (record.method = "item" => did["fields"] > 0 /\ Live # {})
                  /\ \A n \in notes \ late : did[n] > 0
                  /\ markdown # None /\ "markdown" \notin late => mailed # "no"]_vars
    BY LeavesWhenSent
  <1> QED BY InitIInv, NextIInv, InitLInv, NextLInv, <1>1, PTL DEF Spec, LeavesSent

=============================================================================
