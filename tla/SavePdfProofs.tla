---------------------------- MODULE SavePdfProofs ----------------------------
(***************************************************************************)
(* Theorems about SavePdf, for every number of windows, edits, metadata    *)
(* writes and restarts, where one "Save my copy over it" at most is under  *)
(* way in a window.                                                        *)
(***************************************************************************)
EXTENDS SavePdf, TLAPS

\* A window has one keepMine under way at most: a second press, which the
\* reader does not prevent, is left out.
OneKeep == \A j, k \in Keeps : j = k

\* BYTES continue BASE: they hold its edits, and its metadata unchanged.
MadeFrom(base, bytes) ==
    base.edits \subseteq bytes.edits /\ base.meta = bytes.meta

-----------------------------------------------------------------------------
(* The inductive invariant.                                                *)

\* What metadata_writes calls the same PDF with other metadata holds the same
\* edits.
WritesInv ==
    writes # None => \A base \in writes.bases : base.edits = writes.stored.edits

\* A PUT has its bytes, later its tag; one its window still hears of carries
\* an earlier state of the window's document; one admitted holds the lock.
CallInv ==
    \A w \in Windows, c \in Calls :
        LET put == call[w][c] IN
        /\ put.pc # "idle" => put.bytes \in Bytes
        /\ put.pc \in {"sent", "admitted", "ok", "stale"} => put.tag \in Bytes
        /\ put.pc = "ok" => put.tag = put.bytes
        /\ put.pc # "idle" /\ put.heard => MadeFrom(put.bytes, reader[w].doc)
        /\ put.pc = "admitted" => lock = <<w, c>>

\* keepMine runs only while the conflict is open.
KeepInv ==
    \A w \in Windows, k \in Keeps :
        call[w][k].pc # "idle" /\ call[w][k].heard => reader[w].conflict

\* A queued save runs only while no conflict is open; its tag names bytes its
\* own were made from, and one admitted holds all the edits of the stored PDF.
SaveInv ==
    \A w \in Windows :
        LET put == call[w]["save"]
            r == reader[w]
        IN
        /\ put.heard
        /\ put.pc # "idle" => ~r.conflict /\ r.saving > 0
        /\ put.pc = "export" => MadeFrom(r.tag, put.bytes)
        /\ put.pc \in {"sent", "admitted"} => MadeFrom(put.tag, put.bytes)
        /\ put.pc = "admitted" =>
              /\ stored.edits \subseteq put.bytes.edits
              /\ ~put.rebased => stored.meta = put.bytes.meta

\* Without a conflict a window's document was made from the bytes its tag
\* names; a window that loads the stored PDF has no save of its own left.
ReaderInv ==
    \A w \in Windows :
        LET r == reader[w] IN
        /\ ~r.conflict => MadeFrom(r.tag, r.doc)
        /\ r.at = "loading" =>
              /\ r.conflict /\ r.saving = 0
              /\ \A k \in Keeps : call[w][k].pc # "idle" => ~call[w][k].heard

IInv == TypeOK /\ WritesInv /\ CallInv /\ KeepInv /\ SaveInv /\ ReaderInv

USE DEF Calls, Handlers

LEMMA InitIInv == Init => IInv
  <1> SUFFICES ASSUME Init PROVE IInv
    OBVIOUS
  <1>1. stored \in Bytes
    BY DEF Init, Bytes
  <1>2. Loaded(stored) \in Storages /\ Idle \in Puts
    BY <1>1 DEF Loaded, Idle, Storages, Puts
  <1>3. TypeOK
    BY <1>1, <1>2, SettingsAssumption DEF Init, TypeOK
  <1>4. CallInv /\ KeepInv /\ SaveInv /\ ReaderInv /\ WritesInv
    BY DEF Init, Loaded, Idle, MadeFrom, CallInv, KeepInv, SaveInv, ReaderInv, WritesInv
  <1> QED BY <1>3, <1>4 DEF IInv

\* One window's storage changes, or one of its PUTs: types stay.
LEMMA OneReader ==
    ASSUME TypeOK, NEW w \in Windows, NEW r \in Storages, reader' = [reader EXCEPT ![w] = r]
    PROVE  reader' \in [Windows -> Storages]
  BY DEF TypeOK

LEMMA OneCall ==
    ASSUME TypeOK, NEW w \in Windows, NEW c \in Calls, NEW put \in Puts, Moves(w, c, put)
    PROVE  call' \in [Windows -> [Calls -> Puts]]
  BY DEF TypeOK, Moves

LEMMA MovedPut ==
    ASSUME TypeOK, NEW w \in Windows, NEW c \in Calls, NEW put, Moves(w, c, put)
    PROVE  call'[w][c] = put
  BY DEF TypeOK, Moves

LEMMA IdlePut == Idle \in Puts
  BY DEF Idle, Puts

LEMMA TypedWindow ==
    ASSUME TypeOK, NEW w \in Windows, NEW c \in Calls
    PROVE  reader[w] \in Storages /\ call[w][c] \in Puts
  BY DEF TypeOK

LEMMA Counted ==
    ASSUME NEW r \in Storages, NEW n \in Nat
    PROVE  /\ [r EXCEPT !.saving = n] \in Storages
           /\ [r EXCEPT !.pending = FALSE, !.saving = n] \in Storages
  BY DEF Storages

LEMMA HeardTyped ==
    ASSUME NEW r \in Storages, NEW tag \in Bytes, NEW n \in Nat, NEW b \in BOOLEAN
    PROVE  [r EXCEPT !.tag = tag, !.failure = b, !.conflict = b, !.saving = n] \in Storages
  BY DEF Storages

LEMMA FailedTyped ==
    ASSUME NEW r \in Storages, NEW n \in Nat
    PROVE  [r EXCEPT !.failure = TRUE, !.saving = n] \in Storages
  BY DEF Storages

LEMMA CutTyped ==
    ASSUME NEW put \in Puts
    PROVE  LET cut == [put EXCEPT !.pc = "error"] IN
           /\ cut \in Puts
           /\ cut.pc = "error" /\ cut.bytes = put.bytes /\ cut.heard = put.heard
  BY DEF Puts

LEMMA EditIInv ==
    ASSUME IInv, NEW w \in Windows, Edit(w)
    PROVE  IInv'
  <1>a. PICK e \in Edits :
          /\ drawn' = drawn \cup {e}
          /\ reader' = [reader EXCEPT ![w].doc.edits = @ \cup {e}, ![w].pending = TRUE]
    BY DEF Edit
  <1>b. UNCHANGED <<stored, writes, lock, awaiting, call, given, restarts>>
    BY DEF Edit
  <1>1. TypeOK'
    <2> DEFINE doc == [reader[w].doc EXCEPT !.edits = @ \cup {e}]
    <2>1. reader[w] \in Storages /\ reader[w].doc \in Bytes
      BY DEF IInv, TypeOK, Storages
    <2>2. doc \in Bytes
      BY <2>1 DEF Bytes
    <2> HIDE DEF doc
    <2>3. [reader[w] EXCEPT !.doc = doc, !.pending = TRUE] \in Storages
      BY <2>1, <2>2 DEF Storages
    <2>4. reader' = [reader EXCEPT ![w] = [reader[w] EXCEPT !.doc = doc, !.pending = TRUE]]
      BY <1>a, <2>1 DEF doc, IInv
    <2>5. reader' \in [Windows -> Storages]
      BY <2>3, <2>4, OneReader DEF IInv
    <2> QED BY <1>a, <1>b, <2>5 DEF IInv, TypeOK
  <1>2. WritesInv'
    BY <1>b DEF IInv, WritesInv
  <1>3. CallInv'
    BY <1>a, <1>b DEF IInv, TypeOK, CallInv, MadeFrom
  <1>4. KeepInv'
    BY <1>a, <1>b DEF IInv, TypeOK, KeepInv
  <1>5. SaveInv'
    BY <1>a, <1>b DEF IInv, TypeOK, SaveInv
  <1>6. ReaderInv'
    BY <1>a, <1>b DEF IInv, TypeOK, ReaderInv, MadeFrom
  <1> QED BY <1>1, <1>2, <1>3, <1>4, <1>5, <1>6 DEF IInv

LEMMA StartSaveIInv ==
    ASSUME IInv, NEW w \in Windows, StartSave(w)
    PROVE  IInv'
  <1>1. TypeOK'
    <2>0. reader[w] \in Storages
      BY DEF IInv, TypeOK
    <2>a. reader[w].saving + 1 \in Nat
      BY <2>0 DEF Storages
    <2>1. [reader[w] EXCEPT !.pending = FALSE, !.saving = @ + 1] \in Storages
      BY <2>0, <2>a, Counted
    <2>b. reader' = [reader EXCEPT ![w] = [reader[w] EXCEPT !.pending = FALSE, !.saving = @ + 1]]
      BY DEF StartSave
    <2>2. reader' \in [Windows -> Storages]
      BY <2>1, <2>b, OneReader DEF IInv
    <2> QED BY <2>2 DEF IInv, TypeOK, StartSave
  <1>2. WritesInv'
    BY DEF IInv, WritesInv, StartSave
  <1>3. CallInv'
    BY DEF IInv, TypeOK, CallInv, StartSave
  <1>4. KeepInv'
    BY DEF IInv, TypeOK, KeepInv, StartSave
  <1>5. SaveInv'
    BY DEF IInv, TypeOK, SaveInv, Storages, StartSave
  <1>6. ReaderInv'
    BY DEF IInv, TypeOK, ReaderInv, StartSave
  <1> QED BY <1>1, <1>2, <1>3, <1>4, <1>5, <1>6 DEF IInv

LEMMA SaveIInv ==
    ASSUME IInv, NEW w \in Windows, Save(w)
    PROVE  IInv'
  <1>1. CASE reader[w].conflict
    <2>a. /\ reader' = [reader EXCEPT ![w] = [reader[w] EXCEPT !.saving = @ - 1]]
          /\ reader[w].saving > 0 /\ call[w]["save"].pc = "idle"
          /\ UNCHANGED <<call, stored, writes, lock, awaiting, drawn, given, restarts>>
      BY <1>1 DEF Save
    <2>b. reader[w] \in Storages /\ call[w]["save"] \in Puts
      BY CallsAssumption DEF IInv, TypeOK
    <2>1. TypeOK'
      <3>1. [reader[w] EXCEPT !.saving = @ - 1] \in Storages
        BY <2>a, <2>b DEF Storages
      <3>2. reader' \in [Windows -> Storages]
        BY <2>a, <3>1, OneReader DEF IInv
      <3> QED BY <2>a, <3>2 DEF IInv, TypeOK
    <2>2. WritesInv'
      BY <2>a DEF IInv, WritesInv
    <2>3. CallInv'
      BY <2>a DEF IInv, CallInv
    <2>4. KeepInv'
      BY <2>a DEF IInv, KeepInv
    <2>5. SaveInv'
      BY <2>a DEF IInv, SaveInv
    <2>6. ReaderInv'
      BY <2>a DEF IInv, ReaderInv
    <2> QED BY <2>1, <2>2, <2>3, <2>4, <2>5, <2>6 DEF IInv
  <1>2. CASE ~reader[w].conflict
    <2>a. /\ Moves(w, "save", [Idle EXCEPT !.pc = "export", !.bytes = reader[w].doc])
          /\ reader[w].saving > 0 /\ call[w]["save"].pc = "idle"
          /\ UNCHANGED <<reader, stored, writes, lock, awaiting, drawn, given, restarts>>
      BY <1>2 DEF Save, Export
    <2>b. reader[w] \in Storages /\ call[w]["save"] \in Puts
      BY CallsAssumption DEF IInv, TypeOK
    <2>1. TypeOK'
      <3>3. [Idle EXCEPT !.pc = "export", !.bytes = reader[w].doc] \in Puts
        BY <2>b DEF Idle, Puts, Storages
      <3>4. call' \in [Windows -> [Calls -> Puts]]
        BY <2>a, <3>3, OneCall DEF IInv
      <3> QED BY <2>a, <3>4 DEF IInv, TypeOK
    <2>2. WritesInv'
      BY <2>a DEF IInv, WritesInv
    <2>3. CallInv'
      BY <2>a, <2>b DEF IInv, CallInv, MadeFrom, Storages, Moves
    <2>4. KeepInv'
      BY <2>a, CallsAssumption DEF IInv, KeepInv, Moves
    <2>5. SaveInv'
      <3>1. MadeFrom(reader[w].tag, reader[w].doc)
        BY <1>2 DEF IInv, ReaderInv
      <3>2. \A v \in Windows : v # w => call'[v] = call[v]
        BY <2>a DEF Moves, IInv
      <3>3. LET put == call'[w]["save"] IN
            put.pc = "export" /\ put.bytes = reader[w].doc /\ put.heard
        <4> DEFINE put == [Idle EXCEPT !.pc = "export", !.bytes = reader[w].doc]
        <4>1. Moves(w, "save", put) /\ "save" \in Calls
          BY <2>a
        <4> HIDE DEF put
        <4>2. call'[w]["save"] = put
          BY <4>1, MovedPut DEF IInv
        <4> QED BY <4>2 DEF put, Idle
      <3> QED BY <1>2, <2>a, <3>1, <3>2, <3>3 DEF IInv, SaveInv
    <2>6. ReaderInv'
      BY <2>a DEF IInv, ReaderInv, Moves
    <2> QED BY <2>1, <2>2, <2>3, <2>4, <2>5, <2>6 DEF IInv
  <1> QED BY <1>1, <1>2

LEMMA KeepMineIInv ==
    ASSUME IInv, NEW w \in Windows, NEW k \in Keeps, KeepMine(w, k)
    PROVE  IInv'
  <1>a. /\ Moves(w, k, [Idle EXCEPT !.pc = "export", !.bytes = reader[w].doc])
        /\ reader[w].conflict /\ reader[w].at = "open"
        /\ UNCHANGED <<reader, stored, writes, lock, awaiting, drawn, given, restarts>>
    BY DEF KeepMine, Export
  <1>b. reader[w] \in Storages /\ call[w][k] \in Puts
    BY DEF IInv, TypeOK
  <1>1. TypeOK'
    <2>3. [Idle EXCEPT !.pc = "export", !.bytes = reader[w].doc] \in Puts
      BY <1>b DEF Idle, Puts, Storages
    <2>4. call' \in [Windows -> [Calls -> Puts]]
      BY <1>a, <2>3, OneCall DEF IInv
    <2> QED BY <1>a, <2>4 DEF IInv, TypeOK
  <1>2. WritesInv'
    BY <1>a DEF IInv, WritesInv
  <1>3. CallInv'
    BY <1>a, <1>b DEF IInv, CallInv, MadeFrom, Storages, Moves
  <1>4. KeepInv'
    BY <1>a DEF IInv, KeepInv, Moves
  <1>5. SaveInv'
    BY <1>a, CallsAssumption DEF IInv, SaveInv, Moves
  <1>6. ReaderInv'
    BY <1>a DEF IInv, ReaderInv, Moves
  <1> QED BY <1>1, <1>2, <1>3, <1>4, <1>5, <1>6 DEF IInv

LEMMA PutIInv ==
    ASSUME IInv, NEW w \in Windows, NEW c \in Calls, Put(w, c)
    PROVE  IInv'
  <1>a. reader[w] \in Storages /\ call[w][c] \in Puts
    BY TypedWindow DEF IInv
  <1>1. TypeOK'
    <2>3. [call[w][c] EXCEPT !.pc = "sent", !.tag = reader[w].tag] \in Puts
      BY <1>a DEF Puts, Storages
    <2>4. call' \in [Windows -> [Calls -> Puts]]
      BY <2>3, OneCall DEF IInv, Put
    <2> QED BY <2>4 DEF IInv, TypeOK, Put
  <1>2. WritesInv'
    BY DEF IInv, WritesInv, Put
  <1>3. CallInv'
    BY <1>a DEF IInv, CallInv, Storages, Put, Moves
  <1>4. KeepInv'
    BY DEF IInv, KeepInv, Put, Moves
  <1>5. SaveInv'
    BY DEF IInv, SaveInv, Put, Moves
  <1>6. ReaderInv'
    BY DEF IInv, ReaderInv, Put, Moves
  <1> QED BY <1>1, <1>2, <1>3, <1>4, <1>5, <1>6 DEF IInv

LEMMA HearSaveIInv ==
    ASSUME IInv, NEW w \in Windows, HearSave(w)
    PROVE  IInv'
  <1>1. CASE call[w]["save"].pc = "ok"
    <2>a. /\ reader' = [reader EXCEPT ![w] =
                   [reader[w] EXCEPT !.tag = call[w]["save"].tag, !.failure = FALSE,
                      !.conflict = FALSE, !.saving = @ - 1]]
          /\ Moves(w, "save", Idle)
          /\ call[w]["save"].heard
          /\ UNCHANGED <<stored, writes, lock, awaiting, drawn, given, restarts>>
      BY <1>1 DEF HearSave, Answered
    <2>b. reader[w] \in Storages /\ call[w]["save"] \in Puts
      BY CallsAssumption DEF IInv, TypeOK
    <2>c. reader[w].saving > 0 /\ call[w]["save"].tag \in Bytes
      BY <1>1 DEF IInv, SaveInv, CallInv
    <2>d. reader[w].saving - 1 \in Nat
      BY <2>b, <2>c DEF Storages
    <2>1. TypeOK'
      <3>1. [reader[w] EXCEPT !.tag = call[w]["save"].tag, !.failure = FALSE,
               !.conflict = FALSE, !.saving = @ - 1] \in Storages
        BY <2>b, <2>c, <2>d, HeardTyped
      <3>2. reader' \in [Windows -> Storages]
        BY <2>a, <3>1, OneReader DEF IInv
      <3>3. Idle \in Puts
        BY IdlePut
      <3>4. call' \in [Windows -> [Calls -> Puts]]
        BY <2>a, <3>3, OneCall DEF IInv
      <3> QED BY <2>a, <3>2, <3>4 DEF IInv, TypeOK
    <2>2. WritesInv'
      BY <2>a DEF IInv, WritesInv
    <2>3. CallInv'
      BY <2>a DEF IInv, CallInv, Moves, Idle
    <2>4. KeepInv'
      BY <2>a, <1>1 DEF IInv, KeepInv, SaveInv, Moves
    <2>5. SaveInv'
      BY <2>a DEF IInv, TypeOK, SaveInv, Moves, Idle
    <2>6. ReaderInv'
      BY <2>a, <2>c, <1>1 DEF IInv, CallInv, ReaderInv, Storages, Moves
    <2> QED BY <2>1, <2>2, <2>3, <2>4, <2>5, <2>6 DEF IInv
  <1>2. CASE call[w]["save"].pc = "stale"
    <2>a. /\ reader' = [reader EXCEPT ![w] =
                   [reader[w] EXCEPT !.tag = call[w]["save"].tag, !.failure = TRUE,
                      !.conflict = TRUE, !.saving = @ - 1]]
          /\ Moves(w, "save", Idle)
          /\ call[w]["save"].heard
          /\ UNCHANGED <<stored, writes, lock, awaiting, drawn, given, restarts>>
      BY <1>2 DEF HearSave, Answered
    <2>b. reader[w] \in Storages /\ call[w]["save"] \in Puts
      BY CallsAssumption DEF IInv, TypeOK
    <2>c. reader[w].saving > 0 /\ call[w]["save"].tag \in Bytes
      BY <1>2 DEF IInv, SaveInv, CallInv
    <2>d. reader[w].saving - 1 \in Nat
      BY <2>b, <2>c DEF Storages
    <2>1. TypeOK'
      <3>1. [reader[w] EXCEPT !.tag = call[w]["save"].tag, !.failure = TRUE,
               !.conflict = TRUE, !.saving = @ - 1] \in Storages
        BY <2>b, <2>c, <2>d, HeardTyped
      <3>2. reader' \in [Windows -> Storages]
        BY <2>a, <3>1, OneReader DEF IInv
      <3>3. Idle \in Puts
        BY IdlePut
      <3>4. call' \in [Windows -> [Calls -> Puts]]
        BY <2>a, <3>3, OneCall DEF IInv
      <3> QED BY <2>a, <3>2, <3>4 DEF IInv, TypeOK
    <2>2. WritesInv'
      BY <2>a DEF IInv, WritesInv
    <2>3. CallInv'
      BY <2>a DEF IInv, CallInv, Moves, Idle
    <2>4. KeepInv'
      BY <2>a, <1>2 DEF IInv, KeepInv, Moves
    <2>5. SaveInv'
      BY <2>a DEF IInv, TypeOK, SaveInv, Moves, Idle
    <2>6. ReaderInv'
      BY <2>a, <2>c DEF IInv, ReaderInv, Moves
    <2> QED BY <2>1, <2>2, <2>3, <2>4, <2>5, <2>6 DEF IInv
  <1>3. CASE call[w]["save"].pc = "error"
    <2>a. /\ reader' = [reader EXCEPT ![w] =
                   [reader[w] EXCEPT !.failure = TRUE, !.saving = @ - 1]]
          /\ Moves(w, "save", Idle)
          /\ call[w]["save"].heard
          /\ UNCHANGED <<stored, writes, lock, awaiting, drawn, given, restarts>>
      BY <1>3 DEF HearSave, Answered
    <2>b. reader[w] \in Storages /\ call[w]["save"] \in Puts
      BY CallsAssumption DEF IInv, TypeOK
    <2>c. reader[w].saving > 0
      BY <1>3 DEF IInv, SaveInv
    <2>d. reader[w].saving - 1 \in Nat
      BY <2>b, <2>c DEF Storages
    <2>1. TypeOK'
      <3>1. [reader[w] EXCEPT !.failure = TRUE, !.saving = @ - 1] \in Storages
        BY <2>b, <2>d, FailedTyped
      <3>2. reader' \in [Windows -> Storages]
        BY <2>a, <3>1, OneReader DEF IInv
      <3>3. Idle \in Puts
        BY IdlePut
      <3>4. call' \in [Windows -> [Calls -> Puts]]
        BY <2>a, <3>3, OneCall DEF IInv
      <3> QED BY <2>a, <3>2, <3>4 DEF IInv, TypeOK
    <2>2. WritesInv'
      BY <2>a DEF IInv, WritesInv
    <2>3. CallInv'
      BY <2>a DEF IInv, CallInv, Moves, Idle
    <2>4. KeepInv'
      BY <2>a, <1>3 DEF IInv, KeepInv, Moves
    <2>5. SaveInv'
      BY <2>a DEF IInv, TypeOK, SaveInv, Moves, Idle
    <2>6. ReaderInv'
      BY <2>a, <2>c DEF IInv, ReaderInv, Moves
    <2> QED BY <2>1, <2>2, <2>3, <2>4, <2>5, <2>6 DEF IInv
  <1> QED BY <1>1, <1>2, <1>3 DEF HearSave

LEMMA HearKeepIInv ==
    ASSUME IInv, NEW w \in Windows, NEW k \in Keeps, HearKeep(w, k), OneKeep
    PROVE  IInv'
  <1>1. CASE call[w][k].pc = "ok"
    <2>a. /\ reader' = [reader EXCEPT ![w] =
                   [reader[w] EXCEPT !.tag = call[w][k].tag, !.failure = FALSE,
                      !.conflict = FALSE]]
          /\ Moves(w, k, Idle)
          /\ call[w][k].heard
          /\ UNCHANGED <<stored, writes, lock, awaiting, drawn, given, restarts>>
      BY <1>1 DEF HearKeep, Answered
    <2>b. reader[w] \in Storages /\ call[w][k] \in Puts
      BY DEF IInv, TypeOK
    <2>c. call[w][k].tag \in Bytes
      BY <1>1 DEF IInv, CallInv
    <2>1. TypeOK'
      <3>1. [reader[w] EXCEPT !.tag = call[w][k].tag, !.failure = FALSE,
               !.conflict = FALSE] \in Storages
        BY <2>b, <2>c DEF Storages
      <3>2. reader' \in [Windows -> Storages]
        BY <2>a, <3>1, OneReader DEF IInv
      <3>3. Idle \in Puts
        BY IdlePut
      <3>4. call' \in [Windows -> [Calls -> Puts]]
        BY <2>a, <3>3, OneCall DEF IInv
      <3> QED BY <2>a, <3>2, <3>4 DEF IInv, TypeOK
    <2>2. WritesInv'
      BY <2>a DEF IInv, WritesInv
    <2>3. CallInv'
      BY <2>a DEF IInv, CallInv, Moves, Idle
    <2>4. KeepInv'
      BY <2>a DEF IInv, TypeOK, KeepInv, Moves, Idle, OneKeep
    <2>5. SaveInv'
      BY <2>a, <1>1 DEF IInv, KeepInv, SaveInv, Moves
    <2>6. ReaderInv'
      BY <2>a, <1>1 DEF IInv, CallInv, ReaderInv, Moves
    <2> QED BY <2>1, <2>2, <2>3, <2>4, <2>5, <2>6 DEF IInv
  <1>2. CASE call[w][k].pc = "stale"
    <2>a. /\ reader' = [reader EXCEPT ![w] =
                   [reader[w] EXCEPT !.tag = call[w][k].tag, !.failure = TRUE,
                      !.conflict = TRUE]]
          /\ Moves(w, k, Idle)
          /\ call[w][k].heard
          /\ UNCHANGED <<stored, writes, lock, awaiting, drawn, given, restarts>>
      BY <1>2 DEF HearKeep, Answered
    <2>b. reader[w] \in Storages /\ call[w][k] \in Puts
      BY DEF IInv, TypeOK
    <2>c. call[w][k].tag \in Bytes
      BY <1>2 DEF IInv, CallInv
    <2>1. TypeOK'
      <3>1. [reader[w] EXCEPT !.tag = call[w][k].tag, !.failure = TRUE,
               !.conflict = TRUE] \in Storages
        BY <2>b, <2>c DEF Storages
      <3>2. reader' \in [Windows -> Storages]
        BY <2>a, <3>1, OneReader DEF IInv
      <3>3. Idle \in Puts
        BY IdlePut
      <3>4. call' \in [Windows -> [Calls -> Puts]]
        BY <2>a, <3>3, OneCall DEF IInv
      <3> QED BY <2>a, <3>2, <3>4 DEF IInv, TypeOK
    <2>2. WritesInv'
      BY <2>a DEF IInv, WritesInv
    <2>3. CallInv'
      BY <2>a DEF IInv, CallInv, Moves, Idle
    <2>4. KeepInv'
      BY <2>a, <1>2 DEF IInv, KeepInv, Moves
    <2>5. SaveInv'
      BY <2>a, <1>2 DEF IInv, KeepInv, SaveInv, Moves
    <2>6. ReaderInv'
      BY <2>a, <1>2 DEF IInv, ReaderInv, Moves
    <2> QED BY <2>1, <2>2, <2>3, <2>4, <2>5, <2>6 DEF IInv
  <1>3. CASE call[w][k].pc = "error"
    <2>a. /\ UNCHANGED reader
          /\ Moves(w, k, Idle)
          /\ call[w][k].heard
          /\ UNCHANGED <<stored, writes, lock, awaiting, drawn, given, restarts>>
      BY <1>3 DEF HearKeep, Answered
    <2>1. TypeOK'
      <3>3. Idle \in Puts
        BY IdlePut
      <3>4. call' \in [Windows -> [Calls -> Puts]]
        BY <2>a, <3>3, OneCall DEF IInv
      <3> QED BY <2>a, <3>4 DEF IInv, TypeOK
    <2>2. WritesInv'
      BY <2>a DEF IInv, WritesInv
    <2>3. CallInv'
      BY <2>a DEF IInv, CallInv, Moves, Idle
    <2>4. KeepInv'
      BY <2>a, <1>3 DEF IInv, KeepInv, Moves
    <2>5. SaveInv'
      BY <2>a DEF IInv, SaveInv, Moves, Idle
    <2>6. ReaderInv'
      BY <2>a, <1>3 DEF IInv, ReaderInv, Moves
    <2> QED BY <2>1, <2>2, <2>3, <2>4, <2>5, <2>6 DEF IInv
  <1> QED BY <1>1, <1>2, <1>3 DEF HearKeep

LEMMA IgnoreIInv ==
    ASSUME IInv, NEW w \in Windows, NEW c \in Calls, Ignore(w, c)
    PROVE  IInv'
  <1>1. TypeOK'
    <2>3. Idle \in Puts
      BY IdlePut
    <2>4. call' \in [Windows -> [Calls -> Puts]]
      BY <2>3, OneCall DEF IInv, Ignore
    <2> QED BY <2>4 DEF IInv, TypeOK, Ignore
  <1>2. WritesInv'
    BY DEF IInv, WritesInv, Ignore
  <1>3. CallInv'
    BY DEF IInv, CallInv, Ignore, Moves, Idle
  <1>4. KeepInv'
    BY DEF IInv, KeepInv, Ignore, Moves, Idle
  <1>5. SaveInv'
    BY DEF IInv, SaveInv, Ignore, Moves
  <1>6. ReaderInv'
    BY DEF IInv, ReaderInv, Ignore, Moves, Idle
  <1> QED BY <1>1, <1>2, <1>3, <1>4, <1>5, <1>6 DEF IInv

LEMMA DiscardIInv ==
    ASSUME IInv, NEW w \in Windows, Discard(w)
    PROVE  IInv'
  <1> DEFINE r == [reader[w] EXCEPT !.at = "loading", !.pending = FALSE,
           !.saving = 0, !.settling = FALSE]
             Left(put) == IF put.pc = "export" THEN Idle
                          ELSE IF put.pc = "idle" THEN put ELSE [put EXCEPT !.heard = FALSE]
  <1>a. /\ reader' = [reader EXCEPT ![w] = r]
        /\ call' = [call EXCEPT ![w] = [c \in Calls |-> Left(call[w][c])]]
        /\ given' = given \cup (reader[w].doc.edits \ stored.edits)
        /\ UNCHANGED <<stored, writes, lock, awaiting, drawn, restarts>>
    BY DEF Discard
  <1>b. reader[w].at = "open" /\ reader[w].conflict
    BY DEF Discard
  <1>c. reader[w] \in Storages /\ \A c \in Calls : call[w][c] \in Puts
    BY DEF IInv, TypeOK
  <1>d. call[w]["save"].pc = "idle"
    BY <1>b DEF IInv, SaveInv
  <1>1. TypeOK'
    <2>1. r \in Storages
      BY <1>c DEF Storages
    <2>2. reader' \in [Windows -> Storages]
      BY <1>a, <2>1, OneReader DEF IInv
    <2>3. \A c \in Calls : Left(call[w][c]) \in Puts
      BY <1>c, IdlePut DEF Puts
    <2>4. call' \in [Windows -> [Calls -> Puts]]
      BY <1>a, <2>3 DEF IInv, TypeOK
    <2>5. given' \in SUBSET Edits
      BY <1>a DEF IInv, TypeOK, Storages, Bytes
    <2> QED BY <1>a, <2>2, <2>4, <2>5 DEF IInv, TypeOK
  <1>2. WritesInv'
    BY <1>a DEF IInv, WritesInv
  <1>3. CallInv'
    BY <1>a DEF IInv, CallInv, Idle
  <1>4. KeepInv'
    BY <1>a, <1>b DEF IInv, KeepInv
  <1>5. SaveInv'
    BY <1>a, <1>d DEF IInv, SaveInv
  <1>6. ReaderInv'
    BY <1>a, <1>b DEF IInv, TypeOK, ReaderInv, Idle
  <1> QED BY <1>1, <1>2, <1>3, <1>4, <1>5, <1>6 DEF IInv

LEMMA LoadIInv ==
    ASSUME IInv, NEW w \in Windows, Load(w)
    PROVE  IInv'
  <1>1. TypeOK'
    <2>1. Loaded(stored) \in Storages
      BY DEF IInv, TypeOK, Loaded, Storages
    <2>2. reader' \in [Windows -> Storages]
      BY <2>1, OneReader DEF IInv, Load
    <2> QED BY <2>2 DEF IInv, TypeOK, Load
  <1>2. WritesInv'
    BY DEF IInv, WritesInv, Load, Loaded
  <1>3. CallInv'
    BY DEF IInv, CallInv, SaveInv, ReaderInv, Load, Loaded
  <1>4. KeepInv'
    BY DEF IInv, KeepInv, ReaderInv, Load, Loaded
  <1>5. SaveInv'
    BY DEF IInv, SaveInv, ReaderInv, Load, Loaded
  <1>6. ReaderInv'
    BY DEF IInv, ReaderInv, MadeFrom, Load, Loaded
  <1> QED BY <1>1, <1>2, <1>3, <1>4, <1>5, <1>6 DEF IInv

LEMMA CloseIInv ==
    ASSUME IInv, NEW w \in Windows, Close(w)
    PROVE  IInv'
  <1>a. reader[w] \in Storages
    BY DEF IInv, TypeOK
  <1>1. TypeOK'
    <2>1. [reader[w] EXCEPT !.settling = TRUE] \in Storages
      BY <1>a DEF Storages
    <2>2. reader' \in [Windows -> Storages]
      BY <2>1, OneReader DEF IInv, Close
    <2> QED BY <2>2 DEF IInv, TypeOK, Close
  <1>2. WritesInv'
    BY DEF IInv, WritesInv, Close
  <1>3. CallInv'
    BY DEF IInv, CallInv, Close
  <1>4. KeepInv'
    BY DEF IInv, KeepInv, Close
  <1>5. SaveInv'
    BY DEF IInv, SaveInv, Close
  <1>6. ReaderInv'
    BY DEF IInv, ReaderInv, Close
  <1> QED BY <1>1, <1>2, <1>3, <1>4, <1>5, <1>6 DEF IInv

LEMMA SettledIInv ==
    ASSUME IInv, NEW w \in Windows, Settled(w)
    PROVE  IInv'
  <1>1. CASE reader[w].failure \/ reader[w].conflict
    <2>a. /\ reader' = [reader EXCEPT ![w] = [reader[w] EXCEPT !.settling = FALSE]]
          /\ UNCHANGED <<call, stored, writes, lock, awaiting, drawn, given, restarts>>
      BY <1>1 DEF Settled
    <2>b. reader[w] \in Storages /\ call[w]["save"] \in Puts
      BY CallsAssumption DEF IInv, TypeOK
    <2>1. TypeOK'
      <3>1. [reader[w] EXCEPT !.settling = FALSE] \in Storages
        BY <2>b DEF Storages
      <3>2. reader' \in [Windows -> Storages]
        BY <2>a, <3>1, OneReader DEF IInv
      <3> QED BY <2>a, <3>2 DEF IInv, TypeOK
    <2>2. WritesInv'
      BY <2>a DEF IInv, WritesInv
    <2>3. CallInv'
      BY <2>a DEF IInv, CallInv
    <2>4. KeepInv'
      BY <2>a DEF IInv, KeepInv
    <2>5. SaveInv'
      BY <2>a DEF IInv, SaveInv
    <2>6. ReaderInv'
      BY <2>a DEF IInv, ReaderInv
    <2> QED BY <2>1, <2>2, <2>3, <2>4, <2>5, <2>6 DEF IInv
  <1>2. CASE ~(reader[w].failure \/ reader[w].conflict)
    <2>a. /\ reader' = [reader EXCEPT ![w] =
                   [reader[w] EXCEPT !.settling = FALSE, !.at = "closed"]]
          /\ UNCHANGED <<call, stored, writes, lock, awaiting, drawn, given, restarts>>
      BY <1>2 DEF Settled
    <2>b. reader[w] \in Storages /\ call[w]["save"] \in Puts
      BY CallsAssumption DEF IInv, TypeOK
    <2>1. TypeOK'
      <3>1. [reader[w] EXCEPT !.settling = FALSE, !.at = "closed"] \in Storages
        BY <2>b DEF Storages
      <3>2. reader' \in [Windows -> Storages]
        BY <2>a, <3>1, OneReader DEF IInv
      <3> QED BY <2>a, <3>2 DEF IInv, TypeOK
    <2>2. WritesInv'
      BY <2>a DEF IInv, WritesInv
    <2>3. CallInv'
      BY <2>a DEF IInv, CallInv
    <2>4. KeepInv'
      BY <2>a DEF IInv, KeepInv
    <2>5. SaveInv'
      BY <2>a DEF IInv, SaveInv
    <2>6. ReaderInv'
      BY <2>a DEF IInv, ReaderInv
    <2> QED BY <2>1, <2>2, <2>3, <2>4, <2>5, <2>6 DEF IInv
  <1> QED BY <1>1, <1>2

LEMMA AdmitIInv ==
    ASSUME IInv, NEW w \in Windows, NEW c \in Calls, Admit(w, c)
    PROVE  IInv'
  <1>1. CASE stored # call[w][c].tag /\ ~OnlyMetadataSince(call[w][c].tag)
    <2>a. /\ Moves(w, c, [call[w][c] EXCEPT !.pc = "stale", !.tag = stored])
          /\ call[w][c].pc = "sent" /\ lock = None /\ UNCHANGED lock
          /\ UNCHANGED <<stored, writes, awaiting, reader, drawn, given, restarts>>
      BY <1>1 DEF Admit
    <2>b. reader[w] \in Storages /\ call[w][c] \in Puts
      BY DEF IInv, TypeOK
    <2>1. TypeOK'
      <3>3. [call[w][c] EXCEPT !.pc = "stale", !.tag = stored] \in Puts
        BY <2>b DEF IInv, TypeOK, Puts
      <3>4. call' \in [Windows -> [Calls -> Puts]]
        BY <2>a, <3>3, OneCall DEF IInv
      <3> QED BY <2>a, <3>4 DEF IInv, TypeOK
    <2>2. WritesInv'
      BY <2>a DEF IInv, WritesInv
    <2>3. CallInv'
      BY <2>a DEF IInv, TypeOK, CallInv, Moves
    <2>4. KeepInv'
      BY <2>a DEF IInv, KeepInv, Moves
    <2>5. SaveInv'
      BY <2>a DEF IInv, SaveInv, Moves
    <2>6. ReaderInv'
      BY <2>a DEF IInv, ReaderInv, Moves
    <2> QED BY <2>1, <2>2, <2>3, <2>4, <2>5, <2>6 DEF IInv
  <1>2. CASE stored = call[w][c].tag \/ OnlyMetadataSince(call[w][c].tag)
    <2>a. /\ Moves(w, c, [call[w][c] EXCEPT !.pc = "admitted",
             !.rebased = (stored # call[w][c].tag)])
          /\ call[w][c].pc = "sent" /\ lock = None /\ lock' = <<w, c>>
          /\ UNCHANGED <<stored, writes, awaiting, reader, drawn, given, restarts>>
      BY <1>2 DEF Admit
    <2>b. reader[w] \in Storages /\ call[w][c] \in Puts
      BY DEF IInv, TypeOK
    <2>1. TypeOK'
      <3>3. [call[w][c] EXCEPT !.pc = "admitted",
               !.rebased = (stored # call[w][c].tag)] \in Puts
        BY <2>b DEF IInv, Puts
      <3>4. call' \in [Windows -> [Calls -> Puts]]
        BY <2>a, <3>3, OneCall DEF IInv
      <3> QED BY <2>a, <3>4 DEF IInv, TypeOK
    <2>2. WritesInv'
      BY <2>a DEF IInv, WritesInv
    <2>3. CallInv'
      <3> SUFFICES ASSUME NEW v \in Windows, NEW k \in Calls
                   PROVE  LET put == call'[v][k] IN
                          /\ put.pc # "idle" => put.bytes \in Bytes
                          /\ put.pc \in {"sent", "admitted", "ok", "stale"} => put.tag \in Bytes
                          /\ put.pc = "ok" => put.tag = put.bytes
                          /\ put.pc # "idle" /\ put.heard => MadeFrom(put.bytes, reader[v].doc)
                          /\ put.pc = "admitted" => lock' = <<v, k>>
        BY <2>a DEF CallInv
      <3>1. CASE v = w /\ k = c
        <4>1. call'[v][k] = [call[w][c] EXCEPT !.pc = "admitted", !.rebased = (stored # call[w][c].tag)]
          BY <2>a, <3>1 DEF Moves, IInv, TypeOK
        <4> QED BY <2>a, <2>b, <3>1, <4>1 DEF IInv, CallInv, Puts
      <3>2. CASE ~(v = w /\ k = c)
        <4>1. call'[v][k] = call[v][k] BY <2>a, <3>2 DEF Moves, IInv, TypeOK
        <4> QED BY <2>a, <4>1, HoldersAssumption DEF IInv, CallInv
      <3> QED BY <3>1, <3>2
    <2>4. KeepInv'
      BY <2>a DEF IInv, KeepInv, Moves
    <2>5. SaveInv'
      <3>1. call[w][c].tag.edits = stored.edits
        BY <1>2 DEF IInv, WritesInv, OnlyMetadataSince
      <3>2. ASSUME NEW v \in Windows
            PROVE  \/ call'[v]["save"] = call[v]["save"] /\ ~(v = w /\ c = "save")
                   \/ /\ v = w /\ c = "save"
                      /\ call'[v]["save"] = [call[w][c] EXCEPT !.pc = "admitted",
                                                             !.rebased = (stored # call[w][c].tag)]
        BY <2>a DEF Moves, IInv, TypeOK, Calls
      <3> SUFFICES ASSUME NEW v \in Windows
                   PROVE  LET put == call'[v]["save"]
                              r == reader[v]
                          IN
                          /\ put.heard
                          /\ put.pc # "idle" => ~r.conflict /\ r.saving > 0
                          /\ put.pc = "export" => MadeFrom(r.tag, put.bytes)
                          /\ put.pc \in {"sent", "admitted"} => MadeFrom(put.tag, put.bytes)
                          /\ put.pc = "admitted" =>
                                /\ stored.edits \subseteq put.bytes.edits
                                /\ ~put.rebased => stored.meta = put.bytes.meta
        BY <2>a DEF SaveInv
      <3>3. CASE v = w /\ c = "save"
        <4>1. MadeFrom(call[w][c].tag, call[w][c].bytes) /\ call[w][c].heard
              /\ ~reader[w].conflict /\ reader[w].saving > 0
          BY <2>a, <3>3 DEF IInv, SaveInv
        <4>2. /\ stored.edits \subseteq call[w][c].bytes.edits
              /\ stored = call[w][c].tag => stored.meta = call[w][c].bytes.meta
          BY <3>1, <4>1 DEF MadeFrom
        <4> QED BY <2>b, <3>2, <3>3, <4>1, <4>2 DEF Puts
      <3>4. CASE ~(v = w /\ c = "save") BY <3>2, <3>4 DEF IInv, SaveInv
      <3> QED BY <3>3, <3>4
    <2>6. ReaderInv'
      BY <2>a DEF IInv, ReaderInv, Moves
    <2> QED BY <2>1, <2>2, <2>3, <2>4, <2>5, <2>6 DEF IInv
  <1> QED BY <1>1, <1>2

LEMMA CommitIInv ==
    ASSUME IInv, NEW w \in Windows, NEW c \in Calls, Commit(w, c)
    PROVE  IInv'
  <1>a. reader[w] \in Storages /\ call[w][c] \in Puts /\ call[w][c].bytes \in Bytes
    BY TypedWindow DEF IInv, CallInv, Commit
  <1>b. Placed(call[w][c].bytes, call[w][c].rebased) \in Bytes
    BY <1>a DEF IInv, TypeOK, Placed, Bytes
  <1>1. TypeOK'
    <2>3. [call[w][c] EXCEPT !.pc = "ok", !.tag = call[w][c].bytes] \in Puts
      BY <1>a DEF Puts
    <2>4. call' \in [Windows -> [Calls -> Puts]]
      BY <2>3, OneCall DEF IInv, Commit
    <2> QED BY <2>4, <1>a, <1>b DEF IInv, TypeOK, Commit, MetadataWritten, Bytes
  <1>2. WritesInv'
    BY DEF IInv, WritesInv, Commit, Placed, MetadataWritten
  <1>3. CallInv'
    BY DEF IInv, TypeOK, CallInv, Commit, Moves
  <1>4. KeepInv'
    BY DEF IInv, KeepInv, Commit, Moves
  <1>5. SaveInv'
    BY DEF IInv, TypeOK, CallInv, SaveInv, Commit, Moves
  <1>6. ReaderInv'
    BY DEF IInv, ReaderInv, Commit, Moves
  <1> QED BY <1>1, <1>2, <1>3, <1>4, <1>5, <1>6 DEF IInv

LEMMA FailIInv ==
    ASSUME IInv, NEW w \in Windows, NEW c \in Calls, Fail(w, c)
    PROVE  IInv'
  <1>a. reader[w] \in Storages /\ call[w][c] \in Puts
    BY TypedWindow DEF IInv
  <1>1. TypeOK'
    <2>3. [call[w][c] EXCEPT !.pc = "error"] \in Puts
      BY <1>a DEF Puts
    <2>4. call' \in [Windows -> [Calls -> Puts]]
      BY <2>3, OneCall DEF IInv, Fail
    <2> QED BY <2>4 DEF IInv, TypeOK, Fail
  <1>2. WritesInv'
    BY DEF IInv, WritesInv, Fail
  <1>3. CallInv'
    BY DEF IInv, TypeOK, CallInv, Fail, Moves
  <1>4. KeepInv'
    BY DEF IInv, KeepInv, Fail, Moves
  <1>5. SaveInv'
    BY DEF IInv, SaveInv, Fail, Moves
  <1>6. ReaderInv'
    BY DEF IInv, ReaderInv, Fail, Moves
  <1> QED BY <1>1, <1>2, <1>3, <1>4, <1>5, <1>6 DEF IInv

LEMMA RecordBeginsIInv ==
    ASSUME IInv, NEW meta \in Metas, RecordBegins(meta)
    PROVE  IInv'
  <1>1. TypeOK'
    <2> QED BY DEF IInv, TypeOK, RecordBegins
  <1>2. WritesInv'
    BY DEF IInv, WritesInv, RecordBegins
  <1>3. CallInv'
    BY HoldersAssumption DEF IInv, CallInv, RecordBegins
  <1>4. KeepInv'
    BY DEF IInv, KeepInv, RecordBegins
  <1>5. SaveInv'
    BY DEF IInv, SaveInv, RecordBegins
  <1>6. ReaderInv'
    BY DEF IInv, ReaderInv, RecordBegins
  <1> QED BY <1>1, <1>2, <1>3, <1>4, <1>5, <1>6 DEF IInv

LEMMA RecordEndsIInv ==
    ASSUME IInv, NEW meta \in Metas, RecordEnds(meta)
    PROVE  IInv'
  <1>a. [stored EXCEPT !.meta = meta] \in Bytes
    BY DEF IInv, TypeOK, Bytes
  <1>1. TypeOK'
    <2> QED BY <1>a DEF IInv, TypeOK, RecordEnds, MetadataWritten
  <1>2. WritesInv'
    BY <1>a DEF IInv, WritesInv, RecordEnds, MetadataWritten, Bytes
  <1>3. CallInv'
    BY HoldersAssumption DEF IInv, CallInv, RecordEnds
  <1>4. KeepInv'
    BY DEF IInv, KeepInv, RecordEnds
  <1>5. SaveInv'
    BY HoldersAssumption DEF IInv, CallInv, SaveInv, RecordEnds
  <1>6. ReaderInv'
    BY DEF IInv, ReaderInv, RecordEnds
  <1> QED BY <1>1, <1>2, <1>3, <1>4, <1>5, <1>6 DEF IInv

LEMMA RestartIInv ==
    ASSUME IInv, Restart
    PROVE  IInv'
  <1>a. \A w \in Windows, c \in Calls : call[w][c] \in Puts
    BY DEF IInv, TypeOK
  <1>b. /\ \A w \in Windows, c \in Calls :
              \/ /\ call'[w][c] = call[w][c]
                 /\ call[w][c].pc \notin {"sent", "admitted"}
              \/ /\ call'[w][c] = [call[w][c] EXCEPT !.pc = "error"]
                 /\ call[w][c].pc \in {"sent", "admitted", "ok", "stale"}
        /\ call' = [w \in Windows |-> [c \in Calls |-> call'[w][c]]]
    BY DEF Restart
  <1>c. \A w \in Windows, c \in Calls :
          /\ call'[w][c] \in Puts
          /\ call'[w][c].bytes = call[w][c].bytes /\ call'[w][c].heard = call[w][c].heard
          /\ \/ call'[w][c] = call[w][c] /\ call[w][c].pc \notin {"sent", "admitted"}
             \/ call'[w][c].pc = "error" /\ call[w][c].pc # "idle"
    <2> TAKE w \in Windows, c \in Calls
    <2>1. call[w][c] \in Puts
      BY <1>a
    <2>2. CASE call'[w][c] = call[w][c] /\ call[w][c].pc \notin {"sent", "admitted"}
      BY <2>1, <2>2
    <2>3. CASE /\ call'[w][c] = [call[w][c] EXCEPT !.pc = "error"]
               /\ call[w][c].pc \in {"sent", "admitted", "ok", "stale"}
      BY <2>1, <2>3, CutTyped
    <2> QED BY <1>b, <2>2, <2>3
  <1>d. /\ restarts' = restarts + 1 /\ restarts < MaxRestarts
        /\ writes' = None /\ lock' = None
        /\ UNCHANGED <<stored, awaiting, reader, drawn, given>>
    BY DEF Restart
  <1>1. TypeOK'
    <2> DEFINE p(w, c) == call'[w][c]
    <2>a. call' = [w \in Windows |-> [c \in Calls |-> p(w, c)]]
      BY <1>b
    <2>b. \A w \in Windows, c \in Calls : p(w, c) \in Puts
      BY <1>c
    <2> HIDE DEF p
    <2>1. call' \in [Windows -> [Calls -> Puts]]
      BY <2>a, <2>b
    <2>2. restarts' \in 0 .. MaxRestarts
      BY <1>d, SettingsAssumption DEF IInv, TypeOK
    <2> QED BY <1>d, <2>1, <2>2 DEF IInv, TypeOK
  <1>2. WritesInv'
    BY <1>d DEF WritesInv
  <1>3. CallInv'
    BY <1>c, <1>d DEF IInv, CallInv
  <1>4. KeepInv'
    BY <1>c, <1>d DEF IInv, KeepInv
  <1>5. SaveInv'
    BY <1>c, <1>d DEF IInv, SaveInv
  <1>6. ReaderInv'
    BY <1>c, <1>d DEF IInv, ReaderInv
  <1> QED BY <1>1, <1>2, <1>3, <1>4, <1>5, <1>6 DEF IInv

LEMMA StutterIInv ==
    ASSUME IInv, UNCHANGED vars
    PROVE  IInv'
  <1> USE DEF IInv, vars
  <1>1. TypeOK' BY DEF TypeOK
  <1>2. WritesInv' BY DEF WritesInv
  <1>3. CallInv' BY DEF CallInv
  <1>4. KeepInv' BY DEF KeepInv
  <1>5. SaveInv' BY DEF SaveInv
  <1>6. ReaderInv' BY DEF ReaderInv
  <1> QED BY <1>1, <1>2, <1>3, <1>4, <1>5, <1>6

LEMMA ReaderStepIInv ==
    ASSUME OneKeep, IInv, NEW w \in Windows, Reader(w)
    PROVE  IInv'
  BY EditIInv, StartSaveIInv, SaveIInv, HearSaveIInv, DiscardIInv, LoadIInv, CloseIInv,
     SettledIInv, KeepMineIInv, HearKeepIInv, PutIInv, IgnoreIInv DEF Reader

LEMMA NextIInv ==
    ASSUME OneKeep, IInv, [Next]_vars
    PROVE  IInv'
  <1>1. CASE Next
    BY <1>1, ReaderStepIInv, AdmitIInv, CommitIInv, FailIInv, RecordBeginsIInv,
       RecordEndsIInv, RestartIInv DEF Next, Replace, Record
  <1>2. CASE UNCHANGED vars
    BY <1>2, StutterIInv
  <1> QED BY <1>1, <1>2

-----------------------------------------------------------------------------
(* What a step does to the stored PDF.                                     *)

\* Nothing but the commit of a PUT and the end of a metadata write.
LEMMA StoredStep ==
    ASSUME [Next]_vars, stored' # stored
    PROVE  \/ \E w \in Windows, c \in Calls : Commit(w, c)
           \/ \E meta \in Metas : RecordEnds(meta)
  <1>1. ~UNCHANGED vars
    BY DEF vars
  <1>2. \A w \in Windows : ~Reader(w)
    BY DEF Reader, Edit, StartSave, Save, HearSave, Discard, Load, Close, Settled,
           KeepMine, HearKeep, Put, Ignore
  <1>3. ~Restart /\ \A meta \in Metas : ~RecordBegins(meta)
    BY DEF Restart, RecordBegins
  <1>4. \A w \in Windows, c \in Calls : ~Admit(w, c) /\ ~Fail(w, c)
    BY DEF Admit, Fail
  <1> QED BY <1>1, <1>2, <1>3, <1>4 DEF Next, Replace, Record

\* An ordinary save that lands keeps the stored edits and the stored metadata.
LEMMA SaveKeeps ==
    ASSUME IInv, NEW w \in Windows, Commit(w, "save")
    PROVE  stored.edits \subseteq stored'.edits /\ stored'.meta = stored.meta
  <1> DEFINE put == call[w]["save"]
  <1>1. put.pc = "admitted" /\ stored' = Placed(put.bytes, put.rebased)
    BY DEF Commit
  <1>2. stored \in Bytes /\ put.bytes \in Bytes
    BY <1>1 DEF IInv, TypeOK, CallInv
  <1>3. /\ stored.edits \subseteq put.bytes.edits
        /\ (~put.rebased => stored.meta = put.bytes.meta)
    BY <1>1 DEF IInv, SaveInv
  <1> QED BY <1>1, <1>3 DEF Placed

LEMMA RecordKeeps ==
    ASSUME IInv, NEW meta \in Metas, RecordEnds(meta)
    PROVE  stored'.edits = stored.edits
  BY DEF IInv, TypeOK, RecordEnds

-----------------------------------------------------------------------------
\* A storage, a PUT, a lock and the metadata writes stay of their types: no
\* queue counts below zero, whatever order answers come in.
THEOREM SaveTypeCorrect ==
    ASSUME OneKeep
    PROVE  Spec => []TypeOK
  <1>1. Init => IInv
    BY InitIInv
  <1>2. IInv /\ [Next]_vars => IInv'
    BY NextIInv
  <1>3. IInv => TypeOK
    BY DEF IInv
  <1> QED BY <1>1, <1>2, <1>3, PTL DEF Spec

\* Whatever the windows, metadata writes and restarts do, an ordinary save
\* drops no edit another window stored (the conditional PUT of
\* documentStorage.ts and Store::replace under the key's lock), as long as no
\* window has two keepMine under way (OneKeep).  The code does not see to that:
\* its button stays enabled, and with two this fails.
THEOREM NoSilentOverwriteHolds ==
    ASSUME OneKeep
    PROVE  Spec => NoSilentOverwrite
  <1>1. Init => IInv
    BY InitIInv
  <1>2. IInv /\ [Next]_vars => IInv'
    BY NextIInv
  <1>3. IInv /\ [Next]_vars => [stored.edits \ stored'.edits \subseteq given']_vars
    <2> SUFFICES ASSUME IInv, [Next]_vars
                 PROVE  stored.edits \ stored'.edits \subseteq given'
      OBVIOUS
    <2>1. CASE stored' = stored
      BY <2>1
    <2>2. ASSUME NEW w \in Windows, NEW k \in Keeps, Commit(w, k)
          PROVE  stored.edits \ stored'.edits \subseteq given'
      BY <2>2 DEF Commit
    <2> QED BY <2>1, <2>2, StoredStep, SaveKeeps, RecordKeeps
  <1> QED BY <1>1, <1>2, <1>3, PTL DEF Spec, NoSilentOverwrite

\* No ordinary save undoes metadata recorded in the PDF, whether it was made
\* before the metadata was written or after (only_metadata_since in
\* Store::replace, and the metadata written again into such a save), for the
\* same users (OneKeep).
THEOREM MetadataNeverUndoneHolds ==
    ASSUME OneKeep
    PROVE  Spec => MetadataNeverUndone
  <1>1. Init => IInv
    BY InitIInv
  <1>2. IInv /\ [Next]_vars => IInv'
    BY NextIInv
  <1>3. IInv /\ [Next]_vars =>
          [stored'.meta # stored.meta =>
             \/ \E meta \in Metas : RecordEnds(meta)
             \/ \E w \in Windows, k \in Keeps : Commit(w, k)]_vars
    <2> SUFFICES ASSUME IInv, [Next]_vars, stored'.meta # stored.meta
                 PROVE  \/ \E meta \in Metas : RecordEnds(meta)
                        \/ \E w \in Windows, k \in Keeps : Commit(w, k)
      OBVIOUS
    <2> QED BY StoredStep, SaveKeeps
  <1> QED BY <1>1, <1>2, <1>3, PTL DEF Spec, MetadataNeverUndone

-----------------------------------------------------------------------------
(* Every edit, from the window it is drawn in to the stored PDF.           *)

\* The edits that are in the stored PDF, or that a user gave up.
Kept == stored.edits \cup given

\* An edit that is neither is in a window.
Held == \A e \in drawn \ Kept :
            \E w \in Windows : reader[w].at = "open" /\ e \in reader[w].doc.edits

\* A window that says nothing holds nothing else.
Quiet(w) == reader[w].at = "open" /\ ~Unsaved(w) => reader[w].doc.edits \subseteq Kept

\* What a PUT put in place is kept.
Landed(w, c) == call[w][c].pc = "ok" => call[w][c].bytes.edits \subseteq Kept

\* A keepMine, or the last save of the queue with no other pending, carries all that its
\* window holds.
Same(w, c) ==
    /\ call[w][c].pc # "idle" /\ call[w][c].heard
    /\ c = "save" => ~reader[w].pending /\ reader[w].saving = 1
    => reader[w].doc.edits \subseteq call[w][c].bytes.edits

Sound(w) == Quiet(w) /\ \A c \in Calls : Landed(w, c) /\ Same(w, c)
QInv == Held /\ \A w \in Windows : Sound(w)

\* Nothing once stored is lost but by a user's choice.
LEMMA KeptGrows ==
    ASSUME IInv, [Next]_vars
    PROVE  Kept \subseteq Kept'
  <1>1. given \subseteq given'
    <2>1. CASE UNCHANGED vars
      BY <2>1 DEF vars
    <2>2. ASSUME NEW w \in Windows, Reader(w)
          PROVE  given \subseteq given'
      BY <2>2 DEF Reader, Edit, StartSave, Save, HearSave, Discard, Load, Close, Settled,
                  KeepMine, HearKeep, Put, Ignore
    <2>3. ASSUME NEW w \in Windows, NEW c \in Calls, Replace(w, c)
          PROVE  given \subseteq given'
      BY <2>3 DEF Replace, Admit, Commit, Fail
    <2>4. ASSUME Restart \/ \E meta \in Metas : Record(meta)
          PROVE  given \subseteq given'
      BY <2>4 DEF Restart, Record, RecordBegins, RecordEnds
    <2> QED BY <2>1, <2>2, <2>3, <2>4 DEF Next
  <1>2. CASE stored' = stored
    BY <1>1, <1>2 DEF Kept
  <1>3. ASSUME NEW w \in Windows, NEW k \in Keeps, Commit(w, k)
        PROVE  Kept \subseteq Kept'
    BY <1>1, <1>3 DEF Kept, Commit
  <1> QED BY <1>1, <1>2, <1>3, StoredStep, SaveKeeps, RecordKeeps DEF Kept

\* A step that leaves the readers.
LEMMA SameReaders ==
    ASSUME QInv, UNCHANGED <<reader, drawn>>, Kept \subseteq Kept',
           \A w \in Windows, c \in Calls :
              LET put == call[w][c]  moved == call'[w][c] IN
              /\ moved.pc = "ok" =>
                    \/ put.pc = "ok" /\ moved.bytes = put.bytes
                    \/ moved.bytes.edits \subseteq Kept'
              /\ moved.pc # "idle" /\ moved.heard =>
                    \/ put.pc # "idle" /\ put.heard /\ moved.bytes = put.bytes
                    \/ reader[w].doc.edits \subseteq moved.bytes.edits
    PROVE  QInv'
  <1>1. Held'
    BY DEF QInv, Held
  <1>2. ASSUME NEW w \in Windows
        PROVE  Sound(w)'
    <2>1. Quiet(w)'
      BY DEF QInv, Sound, Quiet, Unsaved
    <2>2. ASSUME NEW c \in Calls
          PROVE  Landed(w, c)' /\ Same(w, c)'
      <3>1. Landed(w, c) /\ Same(w, c)
        BY DEF QInv, Sound
      <3>2. Landed(w, c)'
        BY <3>1 DEF Landed
      <3>3. Same(w, c)'
        BY <3>1 DEF Same
      <3> QED BY <3>2, <3>3
    <2> QED BY <2>1, <2>2 DEF Sound
  <1> QED BY <1>1, <1>2 DEF QInv

\* A step of one window, W: what it holds is still held, or kept.
LEMMA OneWindow ==
    ASSUME QInv, NEW w \in Windows, Kept \subseteq Kept',
           \A v \in Windows : v # w => reader'[v] = reader[v] /\ call'[v] = call[v],
           \A e \in drawn' \ Kept' :
              \/ reader'[w].at = "open" /\ e \in reader'[w].doc.edits
              \/ e \in drawn /\ ~ (reader[w].at = "open" /\ e \in reader[w].doc.edits),
           Sound(w)'
    PROVE  QInv'
  <1>1. Held'
    BY DEF QInv, Held
  <1>2. ASSUME NEW v \in Windows, v # w
        PROVE  Sound(v)'
    <2>1. reader'[v] = reader[v] /\ call'[v] = call[v] /\ Sound(v)
      BY <1>2 DEF QInv
    <2> QED BY <2>1 DEF Sound, Quiet, Unsaved, Landed, Same
  <1> QED BY <1>1, <1>2 DEF QInv

LEMMA InitQInv == Init => QInv
  BY DEF Init, QInv, Held, Sound, Quiet, Landed, Same, Loaded, Idle

\* The PUTs move, and the server with them.
LEMMA PutStepQInv ==
    ASSUME IInv, QInv, Kept \subseteq Kept', NEW w \in Windows, NEW c \in Calls,
           \/ Put(w, c) \/ Ignore(w, c) \/ Admit(w, c) \/ Commit(w, c) \/ Fail(w, c)
           \/ c \in Keeps /\ KeepMine(w, c)
           \/ c = "save" /\ Save(w) /\ ~reader[w].conflict
    PROVE  QInv'
  <1>1. /\ UNCHANGED <<reader, drawn>>
        /\ \A v \in Windows, k \in Calls : ~(v = w /\ k = c) => call'[v][k] = call[v][k]
    BY DEF Put, Ignore, Admit, Commit, Fail, KeepMine, Save, Export, Moves, IInv, TypeOK
  <1>2. /\ call'[w][c].pc = "ok" =>
              \/ call[w][c].pc = "ok" /\ call'[w][c].bytes = call[w][c].bytes
              \/ call'[w][c].bytes.edits \subseteq Kept'
        /\ call'[w][c].pc # "idle" /\ call'[w][c].heard =>
              \/ call[w][c].pc # "idle" /\ call[w][c].heard /\ call'[w][c].bytes = call[w][c].bytes
              \/ reader[w].doc.edits \subseteq call'[w][c].bytes.edits
    <2> DEFINE put == call[w][c]
               Going == \E moved \in Puts :
                           /\ Moves(w, c, moved) /\ put.pc # "idle"
                           /\ moved.bytes = put.bytes /\ moved.heard = put.heard
    <2>0. put \in Puts /\ reader[w] \in Storages
      BY TypedWindow DEF IInv
    <2>1. ASSUME NEW moved \in Puts, Moves(w, c, moved), put.pc # "idle",
                 moved.bytes = put.bytes, moved.heard = put.heard,
                 moved.pc = "ok" => put.bytes.edits \subseteq Kept'
          PROVE  <1>2!1 /\ <1>2!2
      <3>1. call'[w][c] = moved
        BY <2>1, MovedPut DEF IInv
      <3> QED BY <2>1, <3>1
    <2>2. CASE Put(w, c)
      <3>1. [put EXCEPT !.pc = "sent", !.tag = reader[w].tag] \in Puts
        BY <2>0 DEF Puts, Storages
      <3> QED BY <2>0, <2>1, <2>2, <3>1 DEF Put, Puts
    <2>3. CASE Admit(w, c)
      <3>1. \A b \in BOOLEAN : [put EXCEPT !.pc = "admitted", !.rebased = b] \in Puts
        BY <2>0 DEF Puts
      <3>2. [put EXCEPT !.pc = "stale", !.tag = stored] \in Puts
        BY <2>0 DEF Puts, IInv, TypeOK
      <3> QED BY <2>0, <2>1, <2>3, <3>1, <3>2 DEF Admit, Puts
    <2>4. CASE Commit(w, c)
      <3>1. put.pc = "admitted" /\ put.bytes \in Bytes
        BY <2>4 DEF Commit, IInv, CallInv
      <3>2. [put EXCEPT !.pc = "ok", !.tag = put.bytes] \in Puts
        BY <2>0, <3>1 DEF Puts
      <3>3. put.bytes.edits \subseteq Kept'
        BY <2>4, <3>1 DEF Commit, Placed, Kept, Bytes
      <3>4. Moves(w, c, [put EXCEPT !.pc = "ok", !.tag = put.bytes])
        BY <2>4 DEF Commit
      <3> QED BY <2>0, <2>1, <3>1, <3>2, <3>3, <3>4 DEF Puts
    <2>5. CASE Fail(w, c)
      <3>1. [put EXCEPT !.pc = "error"] \in Puts
        BY <2>0 DEF Puts
      <3> QED BY <2>0, <2>1, <2>5, <3>1 DEF Fail, Puts
    <2>6. CASE Ignore(w, c)
      <3>1. call'[w][c] = Idle
        BY <2>6, MovedPut DEF Ignore, IInv
      <3> QED BY <3>1 DEF Idle
    <2>7. CASE Export(w, c)
      <3> DEFINE new == [Idle EXCEPT !.pc = "export", !.bytes = reader[w].doc]
      <3>1. Moves(w, c, new)
        BY <2>7 DEF Export
      <3>2. new.pc = "export" /\ new.bytes = reader[w].doc
        BY DEF Idle
      <3> HIDE DEF new
      <3>3. call'[w][c] = new
        BY <3>1, MovedPut DEF IInv
      <3> QED BY <3>2, <3>3
    <2> QED BY <2>2, <2>3, <2>4, <2>5, <2>6, <2>7 DEF KeepMine, Save
  <1> QED BY <1>1, <1>2, SameReaders

LEMMA ServerStepQInv ==
    ASSUME IInv, QInv, Kept \subseteq Kept',
           \/ Restart
           \/ \E meta \in Metas : Record(meta)
           \/ UNCHANGED vars
    PROVE  QInv'
  <1>1. UNCHANGED <<reader, drawn>>
    BY DEF Restart, Record, RecordBegins, RecordEnds, vars
  <1>2. CASE UNCHANGED call
    BY <1>1, <1>2, SameReaders
  <1>3. CASE Restart
    <2>1. ASSUME NEW w \in Windows, NEW c \in Calls
          PROVE  \/ call'[w][c] = call[w][c]
                 \/ /\ call[w][c].pc # "idle" /\ call'[w][c].pc = "error"
                    /\ call'[w][c].bytes = call[w][c].bytes /\ call'[w][c].heard = call[w][c].heard
      <3>1. call[w][c] \in Puts
        BY TypedWindow DEF IInv
      <3>2. \/ call'[w][c] = call[w][c]
            \/ /\ call'[w][c] = [call[w][c] EXCEPT !.pc = "error"]
               /\ call[w][c].pc \in {"sent", "admitted", "ok", "stale"}
        BY <1>3 DEF Restart
      <3> QED BY <3>1, <3>2, CutTyped
    <2> QED BY <1>1, <2>1, SameReaders
  <1> QED BY <1>2, <1>3 DEF Record, RecordBegins, RecordEnds, vars

\* The user draws, saves and closes; the window keeps what it holds.
LEMMA DocumentStepQInv ==
    ASSUME IInv, QInv, Careful, Kept \subseteq Kept', NEW w \in Windows,
           \/ Edit(w) \/ StartSave(w) \/ Close(w) \/ Settled(w)
           \/ Save(w) /\ reader[w].conflict
    PROVE  QInv'
  <1>a. /\ reader[w] \in Storages /\ reader[w].doc \in Bytes /\ reader[w].saving \in Nat
        /\ \A v \in Windows : v # w => reader'[v] = reader[v]
        /\ UNCHANGED call
        /\ Sound(w)
    BY DEF IInv, TypeOK, QInv, Storages, Edit, StartSave, Close, Settled, Save
  <1>b. "save" \in Calls /\ (call[w]["save"].pc # "idle" => reader[w].saving > 0 /\ ~reader[w].conflict)
    BY DEF IInv, SaveInv
  <1>1. CASE Edit(w)
    <2>1. PICK e \in Edits :
             /\ drawn' = drawn \cup {e}
             /\ reader' = [reader EXCEPT ![w].doc.edits = @ \cup {e}, ![w].pending = TRUE]
      BY <1>1 DEF Edit
    <2>2. /\ reader'[w].at = "open" /\ reader'[w].pending
          /\ reader'[w].doc.edits = reader[w].doc.edits \cup {e}
      BY <1>1, <1>a, <2>1 DEF Edit, IInv, TypeOK, Storages, Bytes
    <2>3. Sound(w)'
      <3>1. Quiet(w)'
        BY <2>2 DEF Quiet, Unsaved
      <3>2. ASSUME NEW c \in Calls
            PROVE  Landed(w, c)' /\ Same(w, c)'
        BY <1>1, <1>a, <2>2 DEF Sound, Landed, Same, Edit
      <3> QED BY <3>1, <3>2 DEF Sound
    <2> QED BY <1>a, <2>1, <2>2, <2>3, OneWindow
  <1>2. CASE ~Edit(w)
    <2>1. /\ UNCHANGED drawn /\ reader'[w].doc = reader[w].doc
          /\ \/ reader'[w].at = reader[w].at
             \/ reader'[w].at = "closed" /\ ~Unsaved(w)
          /\ reader'[w].saving \in Nat
          /\ Unsaved(w)' <=> Unsaved(w)
          /\ \/ reader'[w].pending = reader[w].pending /\ reader'[w].saving = reader[w].saving
             \/ call[w]["save"].pc = "idle"
             \/ reader'[w].saving > 1
      BY <1>2, <1>a, <1>b DEF StartSave, Close, Settled, Save, IInv, TypeOK, Storages, Unsaved
    <2>2. Sound(w)'
      <3>1. Quiet(w)'
        BY <1>a, <2>1 DEF Sound, Quiet
      <3>2. ASSUME NEW c \in Calls
            PROVE  Landed(w, c)' /\ Same(w, c)'
        BY <1>a, <2>1 DEF Sound, Landed, Same
      <3> QED BY <3>1, <3>2 DEF Sound
    <2>3. ASSUME NEW e \in drawn' \ Kept', reader[w].at = "open", e \in reader[w].doc.edits
          PROVE  reader'[w].at = "open" /\ e \in reader'[w].doc.edits
      BY <1>a, <2>1, <2>3 DEF Sound, Quiet
    <2> QED BY <1>a, <2>1, <2>2, <2>3, OneWindow
  <1> QED BY <1>1, <1>2

\* What the answer PUT to the queue's save makes of R.
HeardBy(r, put) ==
    CASE put.pc = "ok" -> [r EXCEPT !.tag = put.tag, !.failure = FALSE, !.conflict = FALSE,
                                    !.saving = @ - 1]
      [] put.pc = "stale" -> [r EXCEPT !.tag = put.tag, !.failure = TRUE, !.conflict = TRUE,
                                       !.saving = @ - 1]
      [] put.pc = "error" -> [r EXCEPT !.failure = TRUE, !.saving = @ - 1]

LEMMA HeardSave ==
    ASSUME TypeOK, NEW w \in Windows, HearSave(w)
    PROVE  /\ reader'[w] = HeardBy(reader[w], call[w]["save"])
           /\ call[w]["save"].pc = "ok" \/ reader'[w].failure
  <1>a. reader[w] \in Storages
    BY DEF TypeOK
  <1>b. call[w]["save"].pc \in {"ok", "stale", "error"}
    BY DEF HearSave
  <1>1. CASE call[w]["save"].pc = "ok"
    <2>1. reader' = [reader EXCEPT ![w] =
                   [reader[w] EXCEPT !.tag = call[w]["save"].tag, !.failure = FALSE,
                      !.conflict = FALSE, !.saving = @ - 1]]
      BY <1>1 DEF HearSave, Answered
    <2>2. HeardBy(reader[w], call[w]["save"]) =
                   [reader[w] EXCEPT !.tag = call[w]["save"].tag, !.failure = FALSE,
                      !.conflict = FALSE, !.saving = @ - 1]
      BY <1>1 DEF HeardBy
    <2> QED BY <1>1, <2>1, <2>2 DEF TypeOK
  <1>2. CASE call[w]["save"].pc = "stale"
    <2>1. reader' = [reader EXCEPT ![w] =
                   [reader[w] EXCEPT !.tag = call[w]["save"].tag, !.failure = TRUE,
                      !.conflict = TRUE, !.saving = @ - 1]]
      BY <1>2 DEF HearSave, Answered
    <2>2. HeardBy(reader[w], call[w]["save"]) =
                   [reader[w] EXCEPT !.tag = call[w]["save"].tag, !.failure = TRUE,
                      !.conflict = TRUE, !.saving = @ - 1]
      BY <1>2 DEF HeardBy
    <2> QED BY <1>a, <2>1, <2>2 DEF TypeOK, Storages
  <1>3. CASE call[w]["save"].pc = "error"
    <2>1. reader' = [reader EXCEPT ![w] =
                   [reader[w] EXCEPT !.failure = TRUE, !.saving = @ - 1]]
      BY <1>3 DEF HearSave, Answered
    <2>2. HeardBy(reader[w], call[w]["save"]) =
                   [reader[w] EXCEPT !.failure = TRUE, !.saving = @ - 1]
      BY <1>3 DEF HeardBy
    <2> QED BY <1>a, <2>1, <2>2 DEF TypeOK, Storages
  <1> QED BY <1>b, <1>1, <1>2, <1>3

\* An answer comes: with a copy in place there is nothing left to say.
LEMMA HearQInv ==
    ASSUME IInv, QInv, Kept \subseteq Kept', NEW w \in Windows, NEW c \in Calls,
           \/ c = "save" /\ HearSave(w)
           \/ c \in Keeps /\ HearKeep(w, c)
    PROVE  QInv'
  <1> DEFINE r == reader[w]  put == call[w][c]
  <1>a. /\ r \in Storages /\ put \in Puts /\ Sound(w)
        /\ put.pc \in {"ok", "stale", "error"} /\ put.heard
        /\ UNCHANGED <<stored, drawn, given>> /\ Moves(w, c, Idle)
    BY TypedWindow DEF IInv, QInv, HearSave, HearKeep
  <1>b. /\ call'[w][c] = Idle
        /\ \A v \in Windows : v # w => call'[v] = call[v] /\ reader'[v] = reader[v]
        /\ \A k \in Calls : k # c => call'[w][k] = call[w][k]
    BY <1>a, MovedPut DEF Moves, HearSave, HearKeep, IInv, TypeOK
  <1>c. "save" \in Calls /\ (c = "save" => r.saving > 0)
    BY <1>a DEF IInv, SaveInv
  <1>d. c = "save" => HearSave(w)
    BY CallsAssumption
  <1>1. /\ reader'[w].at = r.at /\ reader'[w].doc = r.doc /\ reader'[w].pending = r.pending
        /\ reader'[w].saving = IF c = "save" THEN r.saving - 1 ELSE r.saving
        /\ \/ put.pc = "ok"
           \/ reader'[w].failure \/ reader'[w].conflict
           \/ reader'[w] = r
    <2>1. CASE c = "save"
      <3>1. /\ reader'[w] = HeardBy(r, put)
            /\ put.pc = "ok" \/ reader'[w].failure
        BY <1>a, <2>1, <1>d, HeardSave DEF IInv
      <3>2. /\ HeardBy(r, put).at = r.at /\ HeardBy(r, put).doc = r.doc
            /\ HeardBy(r, put).pending = r.pending /\ HeardBy(r, put).saving = r.saving - 1
        BY <1>a DEF HeardBy, Storages
      <3> QED BY <2>1, <3>1, <3>2
    <2>2. CASE c \in Keeps
      <3>1. \/ reader'[w] = [r EXCEPT !.tag = put.tag, !.failure = FALSE, !.conflict = FALSE]
               /\ put.pc = "ok"
            \/ reader'[w] = [r EXCEPT !.tag = put.tag, !.failure = TRUE, !.conflict = TRUE]
            \/ reader'[w] = r
        BY <1>a, <2>2, CallsAssumption DEF HearKeep, Answered, IInv, TypeOK
      <3> QED BY <1>a, <2>2, <3>1, CallsAssumption DEF Storages
    <2> QED BY <2>1, <2>2
  <1>2. Sound(w)'
    <2>1. Quiet(w)'
      <3>1. CASE put.pc = "ok"
        <4>1. put.bytes.edits \subseteq Kept
          BY <1>a, <3>1 DEF Sound, Landed
        <4>2. (c = "save" => ~r.pending /\ r.saving = 1) => r.doc.edits \subseteq put.bytes.edits
          BY <1>a, <3>1 DEF Sound, Same
        <4>3. c = "save" /\ ~Unsaved(w)' => ~r.pending /\ r.saving = 1
          BY <1>a, <1>c, <1>1 DEF Unsaved, Storages
        <4> QED BY <1>1, <4>1, <4>2, <4>3 DEF Quiet
      <3>2. CASE reader'[w].failure \/ reader'[w].conflict
        BY <3>2 DEF Quiet, Unsaved
      <3>3. CASE reader'[w] = r
        BY <1>a, <3>3 DEF Sound, Quiet, Unsaved
      <3> QED BY <1>1, <3>1, <3>2, <3>3
    <2>2. ASSUME NEW k \in Calls
          PROVE  Landed(w, k)' /\ Same(w, k)'
      <3>1. CASE k = c
        BY <1>b, <3>1 DEF Landed, Same, Idle
      <3>2. CASE k # c
        <4>1. k = "save" => reader'[w].saving = r.saving
          BY <1>1, <3>2
        <4> QED BY <1>a, <1>b, <1>1, <3>2, <4>1 DEF Sound, Landed, Same
      <3> QED BY <3>1, <3>2
    <2> QED BY <2>1, <2>2 DEF Sound
  <1> QED BY <1>a, <1>b, <1>1, <1>2, OneWindow

\* A window whose user discards the copy, and one that loads the stored PDF.
LEMMA ReopenQInv ==
    ASSUME IInv, QInv, Kept \subseteq Kept', NEW w \in Windows, Discard(w) \/ Load(w)
    PROVE  QInv'
  <1>a. /\ reader[w] \in Storages /\ Sound(w) /\ "save" \in Calls
        /\ \A v \in Windows : v # w => reader'[v] = reader[v] /\ call'[v] = call[v]
        /\ UNCHANGED drawn
        /\ call[w]["save"].pc # "idle" => ~reader[w].conflict /\ reader[w].saving > 0
    BY DEF IInv, TypeOK, QInv, SaveInv, Discard, Load
  <1>1. CASE Discard(w)
    <2>1. reader'[w].at = "loading" /\ reader[w].doc.edits \subseteq Kept'
      BY <1>1, <1>a DEF Discard, Kept, IInv, TypeOK, Storages
    <2>2. ASSUME NEW c \in Calls
          PROVE  \/ call'[w][c].pc = "idle"
                 \/ ~call'[w][c].heard /\ call'[w][c].pc = call[w][c].pc
                    /\ call'[w][c].bytes = call[w][c].bytes
      <3>1. call[w][c] \in Puts
        BY TypedWindow DEF IInv
      <3>2. call'[w][c] = IF call[w][c].pc = "export" THEN Idle
                          ELSE IF call[w][c].pc = "idle" THEN call[w][c]
                          ELSE [call[w][c] EXCEPT !.heard = FALSE]
        BY <1>1 DEF Discard, IInv, TypeOK
      <3> QED BY <3>1, <3>2 DEF Puts, Idle
    <2>3. Sound(w)'
      BY <1>a, <2>1, <2>2 DEF Sound, Quiet, Landed, Same
    <2> QED BY <1>a, <2>1, <2>3, OneWindow
  <1>2. CASE Load(w)
    <2>1. /\ reader'[w].doc = stored /\ reader[w].at = "loading"
          /\ UNCHANGED call
      BY <1>2 DEF Load, Loaded, IInv, TypeOK
    <2>2. stored.edits \subseteq Kept'
      BY DEF Kept
    <2>3. \A c \in Calls : call[w][c].pc = "idle" \/ ~call[w][c].heard
      BY <1>a, <2>1 DEF IInv, ReaderInv
    <2>4. Sound(w)'
      BY <1>a, <2>1, <2>2, <2>3 DEF Sound, Quiet, Landed, Same
    <2> QED BY <1>a, <2>1, <2>4, OneWindow
  <1> QED BY <1>1, <1>2

\* No edit is lost quietly: what is not in the stored PDF, and was not given up, is in a
\* window that still says it is unsaved, whatever saves, answers, conflicts, metadata
\* writes and restarts come between (the run kept_edit shows why the user must wait:
\* Careful; OneKeep is as above).
THEOREM NothingLostQuietlyHolds ==
    ASSUME OneKeep, Careful
    PROVE  Spec => []NothingLostQuietly
  <1>1. Init => IInv /\ QInv
    BY InitIInv, InitQInv
  <1>2. IInv /\ [Next]_vars => IInv'
    BY NextIInv
  <1>3. IInv /\ QInv /\ [Next]_vars => QInv'
    <2> SUFFICES ASSUME IInv, QInv, [Next]_vars
                 PROVE  QInv'
      OBVIOUS
    <2>1. Kept \subseteq Kept'
      BY KeptGrows
    <2>2. ASSUME NEW w \in Windows, Reader(w)
          PROVE  QInv'
      <3>1. "save" \in Calls /\ Keeps \subseteq Calls
        OBVIOUS
      <3>2. CASE \/ Edit(w) \/ StartSave(w) \/ Close(w) \/ Settled(w)
                 \/ Save(w) /\ reader[w].conflict
        BY <2>1, <3>2, DocumentStepQInv
      <3>3. CASE \/ Save(w) /\ ~reader[w].conflict
                 \/ \E k \in Keeps : KeepMine(w, k)
                 \/ \E c \in Calls : Put(w, c) \/ Ignore(w, c)
        BY <2>1, <3>1, <3>3, PutStepQInv
      <3>4. CASE HearSave(w) \/ \E k \in Keeps : HearKeep(w, k)
        BY <2>1, <3>1, <3>4, HearQInv
      <3>5. CASE Discard(w) \/ Load(w)
        BY <2>1, <3>5, ReopenQInv
      <3> QED BY <2>2, <3>2, <3>3, <3>4, <3>5 DEF Reader
    <2>3. ASSUME NEW w \in Windows, NEW c \in Calls, Replace(w, c)
          PROVE  QInv'
      BY <2>1, <2>3, PutStepQInv DEF Replace
    <2>4. CASE Restart \/ (\E meta \in Metas : Record(meta)) \/ UNCHANGED vars
      BY <2>1, <2>4, ServerStepQInv
    <2> QED BY <2>2, <2>3, <2>4 DEF Next
  <1>4. QInv => NothingLostQuietly
    BY DEF QInv, Held, Sound, Quiet, Kept, NothingLostQuietly
  <1> QED BY <1>1, <1>2, <1>3, <1>4, PTL DEF Spec
=============================================================================
