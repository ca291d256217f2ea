---------------------------- MODULE BucketProofs ----------------------------
(***************************************************************************)
(* Theorems about Bucket, for every number of keys, uploads, requests,     *)
(* exporters, losses and crashes.                                          *)
(***************************************************************************)
EXTENDS Bucket, TLAPS

USE DEF Exporters, Removing, Requests, Procs, Points

-----------------------------------------------------------------------------
(* Type correctness, with the keys and items that begun requests have.     *)

IInv == Typed /\ Assigned

LEMMA InitIInv == Init => IInv
  BY BoundAssumption, DistinctAssumption
  DEF Init, IInv, Typed, Assigned, NoKeys, Unseen

\* The key a capture chooses is one of those its file name gives.
LEMMA ChosenKey ==
    ASSUME NEW u \in Uploads, NEW i \in FreeCandidates(u)
    PROVE  Candidate[u][i] \in Keys
  <1>1. Candidate[u] \in Seq(Keys) /\ i \in DOMAIN Candidate[u]
    BY CandidateAssumption DEF FreeCandidates
  <1> QED BY <1>1

LEMMA CaptureStepIInv ==
    ASSUME IInv, NEW u \in Uploads, CaptureStep(u)
    PROVE  IInv'
  <1> USE DistinctAssumption
      DEF IInv, Typed, Assigned, disk, locks, local, env, Goto
  <1>1. CASE ReadHeld(u)
    BY <1>1 DEF ReadHeld
  <1>2. CASE FirstLook(u)
    BY <1>2 DEF FirstLook
  <1>3. CASE Place(u)
    <2>1. CASE at' = at /\ placing' = placing /\ pc' \in
                 {[pc EXCEPT ![u] = "stored"], [pc EXCEPT ![u] = "done"]}
      BY <1>3, <2>1 DEF Place
    <2>2. CASE \E i \in FreeCandidates(u) :
                 /\ Goto(u, "place", "commit")
                 /\ placing' = u
                 /\ at' = [at EXCEPT ![u] = Candidate[u][i]]
      <3>1. PICK i \in FreeCandidates(u) :
                 /\ Goto(u, "place", "commit")
                 /\ placing' = u
                 /\ at' = [at EXCEPT ![u] = Candidate[u][i]]
        BY <2>2
      <3>2. Candidate[u][i] \in Keys
        BY ChosenKey
      <3> QED BY <1>3, <3>1, <3>2 DEF Place
    <2> QED BY <1>3, <2>1, <2>2 DEF Place
  <1>4. CASE Commit(u)
    BY <1>4 DEF Commit
  <1>5. CASE Verify(u)
    BY <1>5 DEF Verify
  <1>6. CASE Claim(u)
    BY <1>6 DEF Claim
  <1>7. CASE Unfile(u)
    BY <1>7 DEF Unfile
  <1>8. CASE Stored(u)
    BY <1>8 DEF Stored, Notify
  <1>9. CASE OrphanCommit(u)
    BY <1>9 DEF OrphanCommit
  <1> QED BY <1>1, <1>2, <1>3, <1>4, <1>5, <1>6, <1>7, <1>8, <1>9
          DEF CaptureStep

LEMMA DeleteStepIInv ==
    ASSUME IInv, NEW d \in Deletes, DeleteStep(d)
    PROVE  IInv'
  <1> USE DistinctAssumption
      DEF IInv, Typed, Assigned, disk, locks, local, env, Goto, Finish
  <1>1. CASE Begin(d)
    BY <1>1 DEF Begin, Shown
  <1>2. CASE Record(d)
    BY <1>2 DEF Record
  <1>3. CASE Trash(d)
    BY <1>3 DEF Trash
  <1>4. CASE TrashFails(d)
    BY <1>4 DEF TrashFails
  <1>5. CASE Withdraw(d)
    BY <1>5 DEF Withdraw
  <1>6. CASE Drop(d)
    BY <1>6 DEF Drop, Notify
  <1>7. CASE OrphanTrash(d)
    BY <1>7 DEF OrphanTrash
  <1> QED BY <1>1, <1>2, <1>3, <1>4, <1>5, <1>6, <1>7 DEF DeleteStep

LEMMA ForgetStepIInv ==
    ASSUME IInv, NEW f \in Forgets, ForgetStep(f)
    PROVE  IInv'
  <1> USE DistinctAssumption
      DEF IInv, Typed, Assigned, disk, locks, local, env, Goto
  <1>1. CASE Listed(f)
    BY <1>1 DEF Listed
  <1>2. CASE Forget(f)
    BY SMTT(30), <1>2 DEF Forget
  <1>3. CASE ForgetUnfile(f)
    BY <1>3 DEF ForgetUnfile, Notify
  <1> QED BY <1>1, <1>2, <1>3 DEF ForgetStep

LEMMA RebuildStepIInv ==
    ASSUME IInv, NEW r \in Rebuilds, RebuildStep(r)
    PROVE  IInv'
  <1> USE DistinctAssumption
      DEF IInv, Typed, Assigned, disk, locks, local, env, Goto
  <1>1. CASE FindLost(r)
    BY <1>1 DEF FindLost
  <1>2. CASE CheckRemoved(r)
    BY <1>2 DEF CheckRemoved
  <1>3. CASE FetchFails(r)
    BY <1>3 DEF FetchFails
  <1>4. CASE LookToRestore(r)
    BY <1>4 DEF LookToRestore
  <1>5. CASE Restore(r)
    BY SMTT(30), <1>5 DEF Restore, PutBack
  <1>6. CASE Restored(r)
    BY <1>6 DEF Restored, Notify
  <1>7. CASE OrphanRestore(r)
    BY <1>7 DEF OrphanRestore, PutBack
  <1> QED BY <1>1, <1>2, <1>3, <1>4, <1>5, <1>6, <1>7 DEF RebuildStep

LEMMA FileItemIInv ==
    ASSUME IInv, NEW n \in Filings, FileItem(n)
    PROVE  IInv'
  BY DistinctAssumption
  DEF IInv, Typed, Assigned, disk, locks, local, env, Goto, FileItem, Shown,
      Notify

\* What an exporter holds between two runs.
LEMMA UnseenType ==
    Unseen \in [stored : [Keys -> Uploads \cup {None}], removed : SUBSET Keys]
  BY DEF Unseen, NoKeys

LEMMA ExportStepIInv ==
    ASSUME IInv, NEW x \in Exporters, ExportStep(x)
    PROVE  IInv'
  <1> USE DistinctAssumption, UnseenType
      DEF IInv, Typed, Assigned, disk, locks, local, env, Goto, Ended
  <1>1. CASE Wake(x)
    <2>1. pc' \in {[pc EXCEPT ![x] = "snapshot"]} /\ changed' \in BOOLEAN
      BY <1>1 DEF Wake
    <2>2. UNCHANGED <<disk, locks, local, left, env>>
      BY <1>1 DEF Wake
    <2> QED BY SMTT(30), <2>1, <2>2
  <1>2. CASE Snapshot(x)
    BY <1>2 DEF Snapshot
  <1>3. CASE CheckPrevious(x)
    <2>1. \/ seen' = seen \/ seen' = [seen EXCEPT ![x] = Unseen]
      BY <1>3 DEF CheckPrevious
    <2>2. \E to \in {"write", "wait", "done"} : pc' = [pc EXCEPT ![x] = to]
      BY <1>3 DEF CheckPrevious
    <2>3. UNCHANGED <<disk, locks, changed, at, held, item, left, env>>
      BY <1>3 DEF CheckPrevious
    <2> QED BY SMTT(30), <2>1, <2>2, <2>3
  <1>4. CASE Write(x)
    <2>1. seen[x].stored \in [Keys -> Uploads \cup {None}]
      OBVIOUS
    <2>2. seen' \in [Exporters ->
               [stored : [Keys -> Uploads \cup {None}], removed : SUBSET Keys]]
      BY <1>4 DEF Write
    <2> QED BY <1>4, <2>1, <2>2 DEF Write
  <1>5. CASE Prune(x)
    BY <1>5 DEF Prune
  <1>6. CASE PruneFiling(x)
    <2>1. filing' \in [Keys -> SUBSET Uploads]
      BY <1>6 DEF PruneFiling
    <2> QED BY <1>6, <2>1 DEF PruneFiling
  <1> QED BY <1>1, <1>2, <1>3, <1>4, <1>5, <1>6 DEF ExportStep

LEMMA EnvironmentIInv ==
    ASSUME IInv, Environment
    PROVE  IInv'
  <1> USE DistinctAssumption, KindAssumption, BoundAssumption
      DEF IInv, Typed, Assigned, disk, locks, local, env, Goto
  <1>1. ASSUME NEW k \in Keys, Lose(k) PROVE IInv'
    BY <1>1 DEF Lose
  <1>2. CASE Crash
    BY <1>2, UnseenType DEF Crash, Running, FreedOf
  <1>3. ASSUME NEW p \in Cancellable, Cancel(p) PROVE IInv'
    <2>1. pc[p] \notin {"idle", "orphan"} /\ p \in Requests
      BY <1>3 DEF Cancel, Running
    <2>2. /\ filingLock' \in Procs \cup {None}
          /\ placing' \in Uploads \cup Rebuilds \cup {None}
          /\ sends' \in [Keys -> Deletes \cup {None}]
      BY <1>3 DEF Cancel, FreedOf
    <2>3. /\ pc' \in {[pc EXCEPT ![p] = "done"], [pc EXCEPT ![p] = "orphan"]}
          /\ pc'[p] = "orphan" => pc[p] \in {"commit", "trash", "restore"}
          /\ left' \subseteq left
      BY <1>3 DEF Cancel
    <2>4. Assigned'
      <3>1. at' = at /\ item' = item
        BY <1>3 DEF Cancel
      <3>2. \A q \in Procs : q # p => pc'[q] = pc[q]
        BY <2>3
      <3>3. ASSUME NEW u \in Uploads,
                   pc'[u] \notin {"idle", "look", "place", "stored", "done"}
            PROVE  at'[u] \in Keys
        <4>1. CASE u = p
          <5>1. pc'[p] \in {"done", "orphan"}
            BY <2>1, <2>3
          <5> QED BY <5>1, <4>1, <3>1, <3>3, <2>3
        <4>2. CASE u # p
          BY <4>2, <3>1, <3>2, <3>3
        <4> QED BY <4>1, <4>2
      <3>4. ASSUME NEW q \in Removing \cup Rebuilds, pc'[q] # "idle"
            PROVE  at'[q] \in Keys /\ item'[q] \in Uploads
        BY <3>1, <3>2, <3>4, <2>1
      <3> QED BY <3>3, <3>4
    <2>5. pc' \in [Procs -> Points]
      BY <2>3
    <2>6. UNCHANGED <<disk, changed, local, env>>
      BY <1>3 DEF Cancel
    <2>7. Typed'
      BY <2>2, <2>3, <2>5, <2>6
    <2> QED BY <2>4, <2>7
  <1> QED BY <1>1, <1>2, <1>3 DEF Environment

LEMMA NextIInv == IInv /\ [Next]_vars => IInv'
  <1> SUFFICES ASSUME IInv, [Next]_vars PROVE IInv'
    OBVIOUS
  <1>1. CASE UNCHANGED vars
    BY <1>1 DEF IInv, Typed, Assigned, vars, disk, locks, local, env
  <1>2. CASE Next
    BY <1>2, CaptureStepIInv, DeleteStepIInv, ForgetStepIInv, RebuildStepIInv,
       FileItemIInv, ExportStepIInv, EnvironmentIInv DEF Next
  <1> QED BY <1>1, <1>2

\* Every document, lock, snapshot and control point stays of its type, and a
\* request that acts on a key has one.
THEOREM TypeCorrect == Spec => []TypeOK
  <1>1. IInv => TypeOK
    BY DEF IInv, TypeOK
  <1> QED BY InitIInv, NextIInv, <1>1, PTL DEF Spec

-----------------------------------------------------------------------------
(* The placing mutex: a capture that stands at its rename is alone there,  *)
(* and the bytes it brings are not stored yet.                             *)

Watched == StoredItems \ Strays
Fresh(u) == Original[u] \notin {Original[v] : v \in Watched}

PInv ==
    /\ \A u \in Uploads : pc[u] # "orphan"
    /\ \A u \in Uploads : pc[u] \in {"commit", "verify"} => placing = u
    /\ \A r \in Rebuilds : pc[r] = "restore" => placing = r
    /\ \A u \in Uploads : pc[u] = "commit" => Fresh(u)

LEMMA FewerStored ==
    ASSUME Watched' \subseteq Watched, NEW u \in Uploads, Fresh(u)
    PROVE  Fresh(u)'
  BY DEF Fresh

\* What came back late stays known as that.
LEMMA StraysStay == ASSUME IInv, [Next]_vars PROVE Strays \subseteq Strays'
  <1> SUFFICES ASSUME NEW r \in Rebuilds, pc[r] = "late"
               PROVE  pc'[r] = "late" /\ item'[r] = item[r]
    BY DEF Strays
  <1> USE DEF disk, locks, local, env, Goto
  <1>a. r \in Procs /\ pc \in [Procs -> Points] BY DEF IInv, Typed
  <1>1. ASSUME NEW p \in Procs, p # r, NEW to, pc' = [pc EXCEPT ![p] = to], item'[r] = item[r]
        PROVE  pc'[r] = "late" /\ item'[r] = item[r]
    BY <1>1, <1>a
  <1>2. ASSUME NEW u \in Uploads, CaptureStep(u) PROVE pc'[r] = "late" /\ item'[r] = item[r]
    <2>1. u # r BY DistinctAssumption
    <2> QED BY <1>1, <1>2, <2>1 DEF CaptureStep, ReadHeld, FirstLook, Place, Commit, Verify, Claim,
          Unfile, Stored, OrphanCommit
  <1>3. ASSUME NEW d \in Deletes, DeleteStep(d) PROVE pc'[r] = "late" /\ item'[r] = item[r]
    <2>1. d # r BY DistinctAssumption
    <2>2. item'[r] = item[r]
      BY <1>3, <2>1 DEF DeleteStep, Begin, Record, Trash, TrashFails, Withdraw, Drop, OrphanTrash,
         IInv, Typed
    <2> QED BY <1>1, <1>3, <2>1, <2>2 DEF DeleteStep, Begin, Record, Trash, TrashFails, Withdraw, Drop,
          OrphanTrash, Finish
  <1>4. ASSUME NEW f \in Forgets, ForgetStep(f) PROVE pc'[r] = "late" /\ item'[r] = item[r]
    <2>1. f # r BY DistinctAssumption
    <2>2. item'[r] = item[r] BY <1>4, <2>1 DEF ForgetStep, Listed, Forget, ForgetUnfile, IInv, Typed
    <2> QED BY <1>1, <1>4, <2>1, <2>2 DEF ForgetStep, Listed, Forget, ForgetUnfile
  <1>5. ASSUME NEW q \in Rebuilds, RebuildStep(q) PROVE pc'[r] = "late" /\ item'[r] = item[r]
    <2>1. pc[q] # "late" /\ q # r
      BY <1>5 DEF RebuildStep, FindLost, CheckRemoved, FetchFails, LookToRestore, Restore, Restored,
         OrphanRestore
    <2>2. item'[r] = item[r]
      BY <1>5, <2>1 DEF RebuildStep, FindLost, CheckRemoved, FetchFails, LookToRestore, Restore, Restored,
         OrphanRestore, IInv, Typed
    <2> QED BY <1>1, <1>5, <2>1, <2>2 DEF RebuildStep, FindLost, CheckRemoved, FetchFails, LookToRestore,
          Restore, Restored, OrphanRestore
  <1>6. ASSUME NEW n \in Filings, FileItem(n) PROVE pc'[r] = "late" /\ item'[r] = item[r]
    <2>1. n # r BY DistinctAssumption
    <2> QED BY <1>1, <1>6, <2>1 DEF FileItem
  <1>7. ASSUME NEW x \in Exporters, ExportStep(x) PROVE pc'[r] = "late" /\ item'[r] = item[r]
    <2>1. x # r BY DistinctAssumption
    <2> QED BY <1>1, <1>7, <2>1 DEF ExportStep, Wake, Snapshot, CheckPrevious, Write, Prune, PruneFiling
  <1>8. ASSUME NEW k \in Keys, Lose(k) PROVE pc'[r] = "late" /\ item'[r] = item[r]
    BY <1>8 DEF Lose
  <1>9. CASE Crash
    <2>1. r # App BY DistinctAssumption
    <2> QED BY <1>9, <1>a, <2>1 DEF Crash, Running
  <1>10. ASSUME NEW p \in Cancellable, Cancel(p) PROVE pc'[r] = "late" /\ item'[r] = item[r]
    <2>1. p # r /\ p \in Procs BY <1>10, KindAssumption DEF Cancel, Running
    <2> QED BY <1>1, <1>10, <2>1 DEF Cancel
  <1>11. CASE UNCHANGED vars BY <1>11 DEF vars
  <1> QED BY <1>2, <1>3, <1>4, <1>5, <1>6, <1>7, <1>8, <1>9, <1>10, <1>11 DEF Next, Environment

\* A step that adds no PDF, keeps the mutex and brings no capture and no rebuild
\* to its rename or past it.
LEMMA Apart ==
    ASSUME PInv, StoredItems' \subseteq StoredItems, Strays \subseteq Strays', placing' = placing,
           \A u \in Uploads :
               /\ pc'[u] # "orphan"
               /\ pc'[u] \in {"commit", "verify"} => pc'[u] = pc[u],
           \A r \in Rebuilds : pc'[r] = "restore" => pc[r] = "restore"
    PROVE  PInv'
  <1>1. Watched' \subseteq Watched BY DEF Watched
  <1> QED BY <1>1, FewerStored DEF PInv

LEMMA TakenOut ==
    ASSUME Typed, NEW k \in Keys, pdf' = [pdf EXCEPT ![k] = None]
    PROVE  StoredItems' \subseteq StoredItems
  BY DEF Typed, StoredItems

LEMMA Placed ==
    ASSUME Typed, NEW k \in Keys, NEW u, pdf' = [pdf EXCEPT ![k] = u]
    PROVE  StoredItems' \subseteq StoredItems \cup {u}
  BY DEF Typed, StoredItems

LEMMA SameStored == pdf' = pdf => StoredItems' = StoredItems
  BY DEF StoredItems

LEMMA CaptureApart ==
    ASSUME IInv, PInv, Strays \subseteq Strays', NEW u \in Uploads, NEW to,
           to \notin {"commit", "verify", "orphan"}, pc' = [pc EXCEPT ![u] = to],
           StoredItems' \subseteq StoredItems, placing' = placing
    PROVE  PInv'
  <1>1. \A q \in Procs : q # u => pc'[q] = pc[q]
    BY DEF IInv, Typed
  <1>2. pc'[u] = to /\ u \notin Rebuilds
    BY DistinctAssumption DEF IInv, Typed
  <1> QED BY <1>1, <1>2, Apart DEF PInv

LEMMA CaptureStepPInv ==
    ASSUME IInv, PInv, Strays \subseteq Strays', NEW u \in Uploads, CaptureStep(u)
    PROVE  PInv'
  <1> USE DEF Goto, disk, locks
  <1>a. pc \in [Procs -> Points] /\ u \in Procs /\ u \in InApp
    BY DistinctAssumption, KindAssumption DEF IInv, Typed, InApp
  <1>1. CASE ReadHeld(u)
    BY <1>1, SameStored, CaptureApart DEF ReadHeld
  <1>2. CASE FirstLook(u)
    <2>1. \E to \in {"stored", "place"} : pc' = [pc EXCEPT ![u] = to]
      BY <1>2 DEF FirstLook
    <2> QED BY <1>2, <2>1, SameStored, CaptureApart DEF FirstLook
  <1>3. CASE Place(u)
    <2>1. CASE pc'[u] # "commit"
      <3>1. placing' = placing /\ \E to \in {"stored", "done"} : pc' = [pc EXCEPT ![u] = to]
        BY <1>3, <2>1, <1>a DEF Place
      <3> QED BY <1>3, <3>1, SameStored, CaptureApart DEF Place
    <2>2. CASE pc'[u] = "commit"
      <3>1. placing = None /\ placing' = u /\ pc' = [pc EXCEPT ![u] = "commit"]
        BY <1>3, <2>2, <1>a DEF Place, PlacingFree
      <3>2. Fresh(u)
        BY <1>3, <2>2, <1>a DEF Place, Holding, Fresh, Watched
      <3>3. Watched' \subseteq Watched
        BY <1>3, SameStored DEF Place, Watched
      <3>4. /\ \A v \in Uploads : pc[v] \notin {"commit", "verify"}
            /\ \A r \in Rebuilds : pc[r] # "restore" /\ r # u
        BY <3>1, DistinctAssumption DEF PInv
      <3>5. /\ \A v \in Uploads : v # u => pc'[v] = pc[v]
            /\ \A r \in Rebuilds : pc'[r] = pc[r]
        BY <3>1, <3>4, <1>a
      <3>6. \A v \in Uploads : pc'[v] = "commit" => v = u /\ Fresh(v)'
        BY <3>2, <3>3, <3>4, <3>5, FewerStored
      <3> QED BY <3>1, <3>4, <3>5, <3>6, <1>a DEF PInv
    <2> QED BY <2>1, <2>2
  <1>4. CASE Commit(u) \/ Verify(u)
    <2>1. /\ \A v \in Uploads : v # u => pc[v] \notin {"commit", "verify"}
          /\ \A r \in Rebuilds : pc[r] # "restore" /\ r # u
      BY <1>4, DistinctAssumption DEF Commit, Verify, PInv
    <2>2. /\ \A v \in Uploads : v # u => pc'[v] = pc[v]
          /\ \A r \in Rebuilds : pc'[r] = pc[r]
      BY <1>4, <2>1, <1>a DEF Commit, Verify
    <2>3. /\ pc'[u] \in {"verify", "claim", "done"}
          /\ pc'[u] = "verify" => placing' = u
      BY <1>4, <1>a DEF Commit, Verify, PInv
    <2> QED BY <2>1, <2>2, <2>3 DEF PInv
  <1>6. CASE Claim(u)
    <2>1. \E to \in {"unfile", "stored"} : pc' = [pc EXCEPT ![u] = to]
      BY <1>6 DEF Claim
    <2> QED BY <1>6, <2>1, SameStored, CaptureApart DEF Claim
  <1>7. CASE Unfile(u)
    BY <1>7, SameStored, CaptureApart DEF Unfile
  <1>8. CASE Stored(u)
    BY <1>8, SameStored, CaptureApart DEF Stored
  <1>9. CASE OrphanCommit(u)
    BY <1>9 DEF OrphanCommit, PInv
  <1> QED BY <1>1, <1>2, <1>3, <1>4, <1>6, <1>7, <1>8, <1>9
          DEF CaptureStep

\* The processes that are no captures keep off the captures' control points.
LEMMA OthersApart ==
    ASSUME IInv, PInv, Strays \subseteq Strays', NEW p \in Procs \ Uploads, NEW to,
           to # "restore", pc' = [pc EXCEPT ![p] = to],
           StoredItems' \subseteq StoredItems, placing' = placing
    PROVE  PInv'
  <1>1. /\ \A u \in Uploads : pc'[u] = pc[u]
        /\ \A r \in Rebuilds : pc'[r] = "restore" => pc[r] = "restore"
    BY DEF IInv, Typed
  <1> QED BY <1>1, Apart DEF PInv

LEMMA DeleteStepPInv ==
    ASSUME IInv, PInv, Strays \subseteq Strays', NEW d \in Deletes, DeleteStep(d)
    PROVE  PInv'
  <1> USE DEF Goto, disk, locks, Finish
  <1>a. d \in Procs \ Uploads
    BY DistinctAssumption
  <1>b. pc[d] # "idle" => at[d] \in Keys
    BY DEF IInv, Assigned
  <1>1. CASE Begin(d)
    BY <1>1, <1>a, SameStored, OthersApart DEF Begin
  <1>2. CASE Record(d)
    BY <1>2, <1>a, SameStored, OthersApart DEF Record
  <1>3. CASE Trash(d)
    <2>1. StoredItems' \subseteq StoredItems
      BY <1>3, <1>b, TakenOut DEF Trash, IInv
    <2> QED BY <1>3, <2>1, <1>a, OthersApart DEF Trash
  <1>4. CASE TrashFails(d)
    BY <1>4, <1>a, SameStored, OthersApart DEF TrashFails
  <1>5. CASE Withdraw(d)
    BY <1>5, <1>a, SameStored, OthersApart DEF Withdraw
  <1>6. CASE Drop(d)
    BY <1>6, <1>a, SameStored, OthersApart DEF Drop
  <1>7. CASE OrphanTrash(d)
    <2>1. StoredItems' \subseteq StoredItems
      BY <1>7, <1>b, TakenOut DEF OrphanTrash, IInv
    <2> QED BY <1>7, <2>1, <1>a, OthersApart DEF OrphanTrash
  <1> QED BY <1>1, <1>2, <1>3, <1>4, <1>5, <1>6, <1>7 DEF DeleteStep

LEMMA ForgetStepPInv ==
    ASSUME IInv, PInv, Strays \subseteq Strays', NEW f \in Forgets, ForgetStep(f)
    PROVE  PInv'
  <1>a. f \in Procs \ Uploads
    BY DistinctAssumption
  <1> QED BY <1>a, SameStored, OthersApart
          DEF ForgetStep, Listed, Forget, ForgetUnfile, Goto, disk, locks

\* A rebuild of the app restores only while no capture is at its rename.
LEMMA RebuildStepPInv ==
    ASSUME IInv, PInv, Strays \subseteq Strays', NEW r \in Rebuilds, RebuildStep(r), r \notin Cli
    PROVE  PInv'
  <1> USE DEF Goto, disk, locks
  <1>a. r \in Procs \ Uploads /\ r \in InApp
    BY DistinctAssumption DEF InApp
  <1>1. CASE FindLost(r)
    BY <1>1, <1>a, SameStored, OthersApart DEF FindLost
  <1>2. CASE CheckRemoved(r)
    BY <1>2, <1>a, SameStored, OthersApart DEF CheckRemoved
  <1>3. CASE FetchFails(r)
    BY <1>3, <1>a, SameStored, OthersApart DEF FetchFails
  <1>4. CASE LookToRestore(r)
    <2>1. CASE placing' = placing /\ pc' = [pc EXCEPT ![r] = "done"]
      BY <1>4, <2>1, <1>a, SameStored, OthersApart DEF LookToRestore
    <2>2. CASE placing' = r /\ pc' = [pc EXCEPT ![r] = "restore"]
      <3>1. placing = None BY <1>4, <1>a DEF LookToRestore, PlacingFree
      <3>2. /\ \A u \in Uploads : pc[u] \notin {"commit", "verify"}
            /\ \A q \in Rebuilds : pc[q] # "restore"
        BY <3>1, DistinctAssumption DEF PInv
      <3>3. /\ \A u \in Uploads : pc'[u] = pc[u]
            /\ \A q \in Rebuilds : q # r => pc'[q] = pc[q]
        BY <2>2, <1>a DEF IInv, Typed
      <3> QED BY <2>2, <3>2, <3>3 DEF PInv
    <2> QED BY <1>4, <2>1, <2>2, <1>a DEF LookToRestore
  <1>5. CASE Restore(r)
    <2>1. /\ \A u \in Uploads : pc[u] \notin {"commit", "verify"}
          /\ \A q \in Rebuilds : q # r => pc[q] # "restore"
      BY <1>5, <1>a, DistinctAssumption DEF Restore, PInv
    <2>2. /\ \A u \in Uploads : pc'[u] = pc[u]
          /\ \A q \in Rebuilds : q # r => pc'[q] = pc[q]
          /\ pc'[r] # "restore"
      BY <1>5, <1>a DEF Restore, IInv, Typed
    <2> QED BY <2>1, <2>2 DEF PInv
  <1>6. CASE Restored(r)
    BY <1>6, <1>a, SameStored, OthersApart DEF Restored
  <1>7. CASE OrphanRestore(r)
    <2>1. /\ \A u \in Uploads : pc'[u] = pc[u]
          /\ \A q \in Rebuilds : q # r => pc'[q] = pc[q]
          /\ pc'[r] = IF placing \in Uploads THEN "late" ELSE "done"
          /\ placing' = placing
      BY <1>7, <1>a DEF OrphanRestore, IInv, Typed
    <2>2. CASE placing \notin Uploads
      <3>1. \A u \in Uploads : pc[u] \notin {"commit", "verify"} BY <2>2 DEF PInv
      <3> QED BY <2>1, <2>2, <3>1 DEF PInv
    <2>3. CASE placing \in Uploads
      <3>1. at[r] \in Keys /\ item' = item BY <1>7 DEF OrphanRestore, IInv, Assigned, local
      <3>2. item[r] \in Strays' BY <2>1, <2>3, <3>1 DEF Strays
      <3>3. StoredItems' \subseteq StoredItems \cup {item[r]}
        <4>1. CASE pdf' = pdf BY <4>1, SameStored
        <4>2. CASE pdf' = [pdf EXCEPT ![at[r]] = item[r]] BY <3>1, <4>2, Placed DEF IInv
        <4> QED BY <1>7, <4>1, <4>2 DEF OrphanRestore, PutBack
      <3>4. Watched' \subseteq Watched BY <3>2, <3>3 DEF Watched
      <3> QED BY <2>1, <2>3, <3>4, FewerStored DEF PInv
    <2> QED BY <2>2, <2>3
  <1> QED BY <1>1, <1>2, <1>3, <1>4, <1>5, <1>6, <1>7 DEF RebuildStep

LEMMA FileItemPInv ==
    ASSUME IInv, PInv, Strays \subseteq Strays', NEW n \in Filings, FileItem(n)
    PROVE  PInv'
  <1>a. n \in Procs \ Uploads
    BY DistinctAssumption
  <1> QED BY <1>a, SameStored, OthersApart DEF FileItem, Goto, disk, locks

LEMMA ExportStepPInv ==
    ASSUME IInv, PInv, Strays \subseteq Strays', NEW x \in Exporters, ExportStep(x)
    PROVE  PInv'
  <1> USE DEF Goto, disk, locks, Ended
  <1>a. x \in Procs \ Uploads
    BY DistinctAssumption
  <1>1. CASE Wake(x)
    BY <1>1, <1>a, SameStored, OthersApart DEF Wake
  <1>2. CASE Snapshot(x)
    BY <1>2, <1>a, SameStored, OthersApart DEF Snapshot
  <1>3. CASE CheckPrevious(x)
    BY <1>3, <1>a, SameStored, OthersApart DEF CheckPrevious
  <1>4. CASE Write(x)
    BY <1>4, <1>a, SameStored, OthersApart DEF Write
  <1>5. CASE Prune(x)
    BY <1>5, <1>a, SameStored, OthersApart DEF Prune
  <1>6. CASE PruneFiling(x)
    BY <1>6, <1>a, SameStored, OthersApart DEF PruneFiling
  <1> QED BY <1>1, <1>2, <1>3, <1>4, <1>5, <1>6 DEF ExportStep

LEMMA EnvironmentPInv ==
    ASSUME IInv, PInv, Strays \subseteq Strays', Environment, Cancellable \cap Uploads = {},
           Rebuilds \cap Cli = {}
    PROVE  PInv'
  <1> USE DEF disk, locks
  <1>1. ASSUME NEW k \in Keys, Lose(k) PROVE PInv'
    <2>1. StoredItems' \subseteq StoredItems
      BY <1>1, TakenOut DEF Lose, IInv
    <2> QED BY <1>1, <2>1, Apart DEF Lose, PInv
  <1>2. CASE Crash
    <2>1. /\ \A u \in Uploads : pc'[u] \in {"idle", "wait", "late", "done"}
          /\ \A r \in Rebuilds : pc'[r] # "restore"
      BY <1>2, DistinctAssumption, KindAssumption, Rebuilds \cap Cli = {}
      DEF Crash, Running, InApp, IInv, Typed
    <2> QED BY <2>1 DEF PInv
  <1>3. ASSUME NEW p \in Cancellable, Cancel(p) PROVE PInv'
    <2>1. p \in Procs \ Uploads
      BY KindAssumption, Cancellable \cap Uploads = {}
    <2>2. \E to \in {"done", "orphan"} : pc' = [pc EXCEPT ![p] = to]
      BY <1>3 DEF Cancel
    <2>3. Watched' \subseteq Watched
      BY <1>3, SameStored DEF Cancel, Watched
    <2>4. placing' = placing \/ placing = p
      BY <1>3 DEF Cancel, FreedOf
    <2>5. /\ \A u \in Uploads : pc'[u] = pc[u]
          /\ \A r \in Rebuilds : r # p => pc'[r] = pc[r]
          /\ pc'[p] # "restore"
      BY <2>1, <2>2 DEF IInv, Typed
    <2>6. \A u \in Uploads : pc'[u] \in {"commit", "verify"} => placing' = u
      BY <2>1, <2>4, <2>5 DEF PInv
    <2>7. \A r \in Rebuilds : pc'[r] = "restore" => placing' = r
      BY <2>4, <2>5 DEF PInv
    <2>8. \A u \in Uploads : pc'[u] = "commit" => Fresh(u)'
      BY <2>3, <2>5, FewerStored DEF PInv
    <2> QED BY <2>5, <2>6, <2>7, <2>8 DEF PInv
  <1> QED BY <1>1, <1>2, <1>3 DEF Environment

LEMMA InitPInv == Init => PInv
  BY DistinctAssumption DEF Init, PInv

LEMMA NextPInv ==
    ASSUME Cancellable \cap Uploads = {}, Rebuilds \cap Cli = {},
           IInv, PInv, [Next]_vars
    PROVE  PInv'
  <1>a. Strays \subseteq Strays' BY StraysStay
  <1>1. CASE UNCHANGED vars
    BY <1>1, <1>a, SameStored, Apart DEF vars, disk, locks, PInv
  <1>2. CASE Next
    BY <1>2, <1>a, CaptureStepPInv, DeleteStepPInv, ForgetStepPInv,
       RebuildStepPInv, FileItemPInv, ExportStepPInv, EnvironmentPInv
    DEF Next
  <1> QED BY <1>1, <1>2

-----------------------------------------------------------------------------
(* What the steps do to the stored PDFs.                                   *)

\* Each step leaves every PDF alone, or takes some out, or places one where
\* none was: a capture's own at its rename, or a lost one that is rebuilt.
PlacesOne(k, u) == pdf[k] = None /\ pdf' = [pdf EXCEPT ![k] = u]
OnlyTakesOut == \A k \in Keys : pdf'[k] \in {pdf[k], None}

LEMMA PdfStep ==
    ASSUME IInv, Next
    PROVE  \/ OnlyTakesOut
           \/ \E u \in Uploads : /\ pc[u] \in {"commit", "orphan"}
                                 /\ PlacesOne(at[u], u)
           \/ \E r \in Rebuilds : /\ pc[r] \in {"restore", "orphan"}
                                  /\ PlacesOne(at[r], item[r])
  <1> USE DEF OnlyTakesOut, PlacesOne, disk, IInv, Typed, Goto
  <1>1. ASSUME NEW u \in Uploads, CaptureStep(u)
        PROVE  OnlyTakesOut \/ /\ pc[u] \in {"commit", "orphan"}
                               /\ PlacesOne(at[u], u)
    BY <1>1 DEF CaptureStep, ReadHeld, FirstLook, Place, Commit, Verify,
       Claim, Unfile, Stored, OrphanCommit, Vacant
  <1>2. ASSUME NEW d \in Deletes, DeleteStep(d) PROVE OnlyTakesOut
    BY <1>2 DEF DeleteStep, Begin, Record, Trash, TrashFails, Withdraw, Drop,
       OrphanTrash
  <1>3. ASSUME NEW f \in Forgets, ForgetStep(f) PROVE OnlyTakesOut
    BY <1>3 DEF ForgetStep, Listed, Forget, ForgetUnfile
  <1>4. ASSUME NEW r \in Rebuilds, RebuildStep(r)
        PROVE  OnlyTakesOut \/ (pc[r] \in {"restore", "orphan"} /\ PlacesOne(at[r], item[r]))
    BY <1>4 DEF RebuildStep, FindLost, CheckRemoved, FetchFails, LookToRestore, Restore, PutBack,
       Restored, OrphanRestore, Vacant
  <1>5. ASSUME NEW n \in Filings, FileItem(n) PROVE OnlyTakesOut
    BY <1>5 DEF FileItem
  <1>6. ASSUME NEW x \in Exporters, ExportStep(x) PROVE OnlyTakesOut
    BY <1>6 DEF ExportStep, Wake, Snapshot, CheckPrevious, Write, Prune,
       PruneFiling
  <1>7. ASSUME Environment PROVE OnlyTakesOut
    BY <1>7 DEF Environment, Lose, Crash, Cancel
  <1> QED BY <1>1, <1>2, <1>3, <1>4, <1>5, <1>6, <1>7 DEF Next

LEMMA StutterPdf == vars' = vars => pdf' = pdf
  BY DEF vars, disk

\* A stored PDF is never overwritten, whatever runs beside the app, is cut
\* off or crashes (persist_noclobber in commit).
THEOREM NeverOverwrittenHolds == Spec => NeverOverwritten
  <1>1. IInv /\ [Next]_vars =>
          [\A k \in Keys : pdf[k] # None => pdf'[k] \in {pdf[k], None}]_vars
    BY PdfStep DEF OnlyTakesOut, PlacesOne, IInv, Typed
  <1> QED BY InitIInv, NextIInv, <1>1, PTL DEF Spec, NeverOverwritten

\* A capture never stores bytes that are stored already, with any number of
\* captures, removals, losses, crashes and rebuilds by the app, as long as no
\* capture is cut off and no `rebuild-cache` runs (Store::capture's second
\* look at the store, under the placing mutex).  A rebuild may be cut off too:
\* what its rename then brings back behind that look (Strays) is excepted.
THEOREM FreshCaptureHolds ==
    ASSUME Cancellable \cap Uploads = {}, Rebuilds \cap Cli = {}
    PROVE  Spec => FreshCapture
  <1> DEFINE I == IInv /\ PInv
  <1>1. Init => I
    BY InitIInv, InitPInv
  <1>2. I /\ [Next]_vars => I'
    BY NextIInv, NextPInv
  <1>3. I /\ [Next]_vars =>
          [\A u \in Uploads :
              pc[u] \in {"commit", "orphan"} /\ u \in StoredItems' \ StoredItems
                  => Original[u] \notin {Original[v] : v \in StoredItems \ Strays}]_vars
    <2> SUFFICES ASSUME I, [Next]_vars, NEW u \in Uploads,
                        pc[u] \in {"commit", "orphan"}
                 PROVE  Fresh(u)
      BY DEF Fresh, Watched
    <2> QED BY DEF PInv
  <1> QED BY <1>1, <1>2, <1>3, PTL DEF Spec, FreshCapture

\* Where nothing is rebuilt and no capture is cut off, the same original
\* bytes are never stored under two keys.
THEOREM OneCopyHolds ==
    ASSUME Cancellable \cap Uploads = {}, Rebuilds = {}
    PROVE  Spec => []OneCopy
  <1> DEFINE I == IInv /\ PInv /\ OneCopy
  <1>1. Init => I
    BY InitIInv, InitPInv DEF Init, OneCopy, NoKeys
  <1>2. I /\ [Next]_vars => I'
    <2> SUFFICES ASSUME I, [Next]_vars PROVE OneCopy'
      BY NextIInv, NextPInv
    <2>1. CASE pdf' = pdf
      BY <2>1 DEF OneCopy
    <2>2. CASE OnlyTakesOut
      BY <2>2 DEF OneCopy, OnlyTakesOut
    <2>3. ASSUME NEW u \in Uploads, pc[u] = "commit", PlacesOne(at[u], u)
          PROVE  OneCopy'
      <3>1. Fresh(u) /\ at[u] \in Keys
        BY <2>3 DEF PInv, IInv, Assigned
      <3>2. \A k \in Keys : pdf[k] # None => Original[pdf[k]] # Original[u]
        BY <3>1 DEF Fresh, Watched, Strays, StoredItems
      <3>3. /\ pdf'[at[u]] = u
            /\ \A k \in Keys : k # at[u] => pdf'[k] = pdf[k]
        BY <2>3, <3>1 DEF PlacesOne, IInv, Typed
      <3> QED BY <3>1, <3>2, <3>3 DEF OneCopy
    <2> QED BY <2>1, <2>2, <2>3, PdfStep, StutterPdf DEF PInv
  <1>3. I => OneCopy
    OBVIOUS
  <1> QED BY <1>1, <1>2, <1>3, PTL DEF Spec

-----------------------------------------------------------------------------
(* Removed keys.  A key recorded as removed has a PDF only while the       *)
(* removal is undecided or a capture has yet to claim the key.             *)

\* No capture and no delete is cut off.
Whole == \A p \in Uploads \cup Deletes : pc[p] # "orphan"
RInv == RemovedStoredInFlight /\ Whole

\* A step of a process that explains no mark, and leaves the marks and PDFs.
LEMMA MarksStay ==
    ASSUME IInv, RInv, UNCHANGED <<pdf, removed>>,
           NEW p \in Procs, NEW to, pc' = [pc EXCEPT ![p] = to], to # "orphan",
           pc[p] \notin {"trash", "withdraw", "verify", "claim"},
           \A q \in Requests : q # p => at'[q] = at[q]
    PROVE  RInv'
  <1>1. \A q \in Procs : q # p => pc'[q] = pc[q]
    BY DEF IInv, Typed
  <1>2. \A q \in Requests : pc[q] \in {"trash", "withdraw", "verify", "claim"} =>
                                pc'[q] = pc[q] /\ at'[q] = at[q]
    BY <1>1
  <1>3. pc'[p] = to
    BY DEF IInv, Typed
  <1>4. Whole'
    BY <1>1, <1>3 DEF RInv, Whole
  <1>5. RemovedStoredInFlight'
    BY <1>2 DEF RInv, RemovedStoredInFlight
  <1> QED BY <1>4, <1>5 DEF RInv

LEMMA CaptureStepRInv ==
    ASSUME IInv, RInv, NEW u \in Uploads, CaptureStep(u)
    PROVE  RInv'
  <1> USE DEF Goto, disk, locks, local
  <1>a. u \in Procs /\ pc \in [Procs -> Points] /\ at \in [Requests -> Keys \cup {None}]
    BY DEF IInv, Typed
  <1>b. \A v \in Procs : v # u => \A to : [pc EXCEPT ![u] = to][v] = pc[v]
    BY <1>a
  <1>1. CASE ReadHeld(u)
    BY <1>1, <1>a, MarksStay DEF ReadHeld
  <1>2. CASE FirstLook(u)
    BY <1>2, <1>a, MarksStay DEF FirstLook
  <1>3. CASE Place(u)
    <2>1. \E to \in {"stored", "done", "commit"} : pc' = [pc EXCEPT ![u] = to]
      BY <1>3 DEF Place
    <2>2. \A q \in Requests : q # u => at'[q] = at[q]
      BY <1>3, <1>a DEF Place
    <2>3. pc[u] = "place" /\ UNCHANGED <<pdf, removed>>
      BY <1>3 DEF Place
    <2> QED BY <1>a, <2>1, <2>2, <2>3, MarksStay
  <1>4. CASE Commit(u)
    <2>1. CASE Vacant(at[u])
      <3>1. /\ pc' = [pc EXCEPT ![u] = "verify"] /\ pdf' = [pdf EXCEPT ![at[u]] = u]
            /\ UNCHANGED <<removed, at>>
        BY <1>4, <2>1 DEF Commit
      <3>2. at[u] \in Keys /\ pc[u] = "commit"
        BY <1>4 DEF Commit, IInv, Assigned
      <3>3. \A k \in Keys : k # at[u] => pdf'[k] = pdf[k]
        BY <3>1 DEF IInv, Typed
      <3>4. \A q \in Procs : q # u => pc'[q] = pc[q]
        BY <3>1, <1>a
      <3>5. pc'[u] = "verify"
        BY <3>1, <1>a
      <3>6. removed \subseteq Keys
        BY DEF IInv, Typed
      <3>7. RemovedStoredInFlight'
        BY <3>1, <3>2, <3>3, <3>4, <3>5, <3>6 DEF RInv, RemovedStoredInFlight
      <3> QED BY <3>4, <3>5, <3>7 DEF RInv, Whole
    <2>2. CASE ~Vacant(at[u])
      BY <1>4, <2>2, <1>a, MarksStay DEF Commit
    <2> QED BY <2>1, <2>2
  <1>5. CASE Verify(u)
    <2>1. /\ pc' = [pc EXCEPT ![u] = IF pdf[at[u]] = None THEN "done" ELSE "claim"]
          /\ UNCHANGED <<removed, pdf, at>>
      BY <1>5 DEF Verify
    <2>2. \A q \in Procs : q # u => pc'[q] = pc[q]
      BY <2>1, <1>a
    <2>3. pc'[u] = IF pdf[at[u]] = None THEN "done" ELSE "claim"
      BY <2>1, <1>a
    <2>4. RemovedStoredInFlight'
      BY <2>1, <2>2, <2>3, DistinctAssumption DEF RInv, RemovedStoredInFlight
    <2> QED BY <2>2, <2>3, <2>4 DEF RInv, Whole
  <1>6. CASE Claim(u)
    <2>1. /\ \E to \in {"unfile", "stored"} : pc' = [pc EXCEPT ![u] = to]
          /\ removed' = removed \ {at[u]} /\ UNCHANGED <<pdf, at>>
      BY <1>6 DEF Claim
    <2>2. \A q \in Procs : q # u => pc'[q] = pc[q]
      BY <2>1, <1>a
    <2>3. pc'[u] \in {"unfile", "stored"}
      BY <2>1, <1>a
    <2>4. RemovedStoredInFlight'
      BY <2>1, <2>2, <2>3, DistinctAssumption DEF RInv, RemovedStoredInFlight
    <2> QED BY <2>2, <2>3, <2>4 DEF RInv, Whole
  <1>7. CASE Unfile(u)
    BY <1>7, <1>a, MarksStay DEF Unfile
  <1>8. CASE Stored(u)
    BY <1>8, <1>a, MarksStay DEF Stored
  <1>9. CASE OrphanCommit(u)
    BY <1>9 DEF OrphanCommit, RInv, Whole
  <1> QED BY <1>1, <1>2, <1>3, <1>4, <1>5, <1>6, <1>7, <1>8, <1>9
          DEF CaptureStep

LEMMA DeleteStepRInv ==
    ASSUME IInv, RInv, NEW d \in Deletes, DeleteStep(d)
    PROVE  RInv'
  <1> USE DEF Goto, disk, locks, local, Finish
  <1>a. /\ d \in Procs /\ pc \in [Procs -> Points] /\ at \in [Requests -> Keys \cup {None}]
        /\ pdf \in [Keys -> Uploads \cup {None}]
        /\ removed \subseteq Keys
    BY DEF IInv, Typed
  <1>1. CASE Begin(d)
    <2>1. \A q \in Requests : q # d => at'[q] = at[q]
      BY <1>1, <1>a DEF Begin
    <2> QED BY <1>1, <2>1, <1>a, MarksStay DEF Begin
  <1>2. CASE Drop(d)
    BY <1>2, <1>a, MarksStay DEF Drop
  <1>3. CASE OrphanTrash(d)
    BY <1>3 DEF OrphanTrash, RInv, Whole
  <1>4. ASSUME NEW to \in {"trash", "drop", "withdraw", "done"}, pc' = [pc EXCEPT ![d] = to],
               at' = at, removed' \subseteq removed \cup {at[d]},
               \A k \in Keys : pdf'[k] \in {pdf[k], None},
               to \in {"drop", "done"} => at[d] \notin removed' \/ pdf'[at[d]] = None
        PROVE  RInv'
    <2>1. \A q \in Procs : q # d => pc'[q] = pc[q]
      BY <1>4, <1>a
    <2>2. pc'[d] = to
      BY <1>4, <1>a
    <2>3. RemovedStoredInFlight'
      <3> SUFFICES ASSUME NEW k \in removed', pdf'[k] # None
                   PROVE  \/ \E e \in Deletes : at'[e] = k /\ pc'[e] \in {"trash", "withdraw"}
                          \/ \E v \in Uploads : at'[v] = k /\ pc'[v] \in {"verify", "claim"}
        BY DEF RemovedStoredInFlight
      <3>1. CASE k = at[d]
        BY <1>4, <2>2, <3>1
      <3>2. CASE k # at[d]
        <4>1. k \in removed /\ k \in Keys /\ pdf[k] # None
          BY <1>4, <3>2, <1>a
        <4> QED BY <1>4, <4>1, <2>1, <3>2, DistinctAssumption DEF RInv, RemovedStoredInFlight
      <3> QED BY <3>1, <3>2
    <2> QED BY <2>1, <2>2, <2>3, <1>4 DEF RInv, Whole
  <1>5. CASE Record(d)
    BY <1>5, <1>4, <1>a DEF Record
  <1>6. CASE Trash(d)
    <2>1. at[d] \in Keys
      BY <1>6 DEF Trash, IInv, Assigned
    <2>2. /\ pdf'[at[d]] = None /\ \A k \in Keys : pdf'[k] \in {pdf[k], None}
      BY <1>6, <2>1, <1>a DEF Trash
    <2> QED BY <1>6, <1>4, <2>2 DEF Trash
  <1>7. CASE TrashFails(d)
    BY <1>7, <1>4 DEF TrashFails
  <1>8. CASE Withdraw(d)
    BY <1>8, <1>4 DEF Withdraw
  <1> QED BY <1>1, <1>2, <1>3, <1>5, <1>6, <1>7, <1>8 DEF DeleteStep

\* The marks a forget adds are of keys without a PDF, and those a prune takes
\* back explain nothing.
LEMMA OtherStepRInv ==
    ASSUME IInv, RInv,
           \/ \E f \in Forgets : ForgetStep(f)
           \/ \E n \in Filings : FileItem(n)
           \/ \E x \in Exporters : ExportStep(x)
    PROVE  RInv'
  <1> USE DEF Goto, disk, locks, local
  <1>a. /\ pc \in [Procs -> Points] /\ at \in [Requests -> Keys \cup {None}]
        /\ removed \subseteq Keys
    BY DEF IInv, Typed
  <1>1. ASSUME NEW p \in Procs \ (Deletes \cup Uploads), NEW to, pc' = [pc EXCEPT ![p] = to],
               UNCHANGED pdf, \A q \in Deletes \cup Uploads : at'[q] = at[q],
               \A k \in removed' \ removed : pdf[k] = None
        PROVE  RInv'
    <2>1. \A q \in Deletes \cup Uploads : pc'[q] = pc[q]
      BY <1>1, <1>a
    <2> QED BY <1>1, <2>1 DEF RInv, Whole, RemovedStoredInFlight
  <1>2. ASSUME NEW f \in Forgets, ForgetStep(f) PROVE RInv'
    <2>1. f \in Procs \ (Deletes \cup Uploads)
      BY DistinctAssumption
    <2>2. /\ \E to : pc' = [pc EXCEPT ![f] = to]
          /\ UNCHANGED pdf /\ \A q \in Deletes \cup Uploads : at'[q] = at[q]
          /\ \A k \in removed' \ removed : pdf[k] = None
      BY <1>2, <2>1, <1>a DEF ForgetStep, Listed, Forget, ForgetUnfile
    <2> QED BY <2>1, <2>2, <1>1
  <1>3. ASSUME NEW n \in Filings, FileItem(n) PROVE RInv'
    <2>1. n \in Procs \ (Deletes \cup Uploads)
      BY DistinctAssumption
    <2> QED BY <1>3, <2>1, <1>1 DEF FileItem
  <1>4. ASSUME NEW x \in Exporters, ExportStep(x) PROVE RInv'
    <2>1. x \in Procs \ (Deletes \cup Uploads)
      BY DistinctAssumption
    <2>2. /\ \E to : pc' = [pc EXCEPT ![x] = to]
          /\ UNCHANGED <<pdf, at>> /\ removed' \subseteq removed
      BY <1>4 DEF ExportStep, Wake, Snapshot, CheckPrevious, Write, Prune, PruneFiling
    <2> QED BY <2>1, <2>2, <1>1
  <1> QED BY <1>2, <1>3, <1>4

LEMMA EnvironmentRInv ==
    ASSUME IInv, RInv, Environment, MaxCrashes = 0,
           Cancellable \cap (Uploads \cup Deletes) = {}
    PROVE  RInv'
  <1> USE DEF disk, locks, local, env
  <1>a. /\ pc \in [Procs -> Points] /\ removed \subseteq Keys /\ crashes \in 0..0
        /\ pdf \in [Keys -> Uploads \cup {None}]
    BY DEF IInv, Typed
  <1>1. ASSUME NEW k \in Keys, Lose(k) PROVE RInv'
    <2>1. UNCHANGED <<pc, at, removed>> /\ \A j \in Keys : pdf'[j] \in {pdf[j], None}
      BY <1>1, <1>a DEF Lose
    <2> QED BY <2>1, <1>a DEF RInv, Whole, RemovedStoredInFlight
  <1>2. ~Crash
    BY <1>a DEF Crash
  <1>3. ASSUME NEW p \in Cancellable, Cancel(p) PROVE RInv'
    <2>1. p \in Procs \ (Deletes \cup Uploads)
      BY KindAssumption, Cancellable \cap (Uploads \cup Deletes) = {}
    <2>2. \E to : pc' = [pc EXCEPT ![p] = to]
      BY <1>3 DEF Cancel
    <2>3. \A q \in Deletes \cup Uploads : pc'[q] = pc[q]
      BY <2>1, <2>2, <1>a
    <2>4. UNCHANGED <<pdf, at, removed>>
      BY <1>3 DEF Cancel
    <2> QED BY <2>3, <2>4 DEF RInv, Whole, RemovedStoredInFlight
  <1> QED BY <1>1, <1>2, <1>3 DEF Environment

\* A key in removed.json has a stored PDF only while its removal is undecided or
\* a capture of that key is about to claim it, for any number of captures,
\* deletes, forgets, exports and losses, as long as no capture and no delete is
\* cut off, the app does not crash and nothing is rebuilt (the order of record,
\* trash and withdraw in delete_item, and of commit and claim in capture).
THEOREM RemovedStoredInFlightHolds ==
    ASSUME Cancellable \cap (Uploads \cup Deletes) = {}, Rebuilds = {}, MaxCrashes = 0
    PROVE  Spec => []RemovedStoredInFlight
  <1> DEFINE I == IInv /\ RInv
  <1>1. Init => I
    BY InitIInv, DistinctAssumption DEF Init, RInv, Whole, RemovedStoredInFlight
  <1>2. I /\ [Next]_vars => I'
    <2> SUFFICES ASSUME I, [Next]_vars PROVE RInv'
      BY NextIInv
    <2>1. CASE UNCHANGED vars
      BY <2>1 DEF vars, disk, locks, local, RInv, Whole, RemovedStoredInFlight
    <2>2. CASE Next
      BY <2>2, CaptureStepRInv, DeleteStepRInv, OtherStepRInv, EnvironmentRInv DEF Next
    <2> QED BY <2>1, <2>2
  <1>3. I => RemovedStoredInFlight
    BY DEF RInv
  <1> QED BY <1>1, <1>2, <1>3, PTL DEF Spec

-----------------------------------------------------------------------------
(* Filings.  A key's filing holds data of the item stored there alone, but *)
(* for what a delete that took the PDF out has yet to drop.                *)

Dropping(k) == \E d \in Deletes : at[d] = k /\ pc[d] = "drop"
FInv ==
    /\ \A k \in Keys : filing[k] \subseteq {pdf[k]} \/ Dropping(k)
    /\ \A d \in Deletes : pc[d] # "orphan"

\* A key's filing may shrink, and may keep what it had while the PDF stays, comes
\* where none was, or is taken out by a delete that will drop the filing.
LEMMA FilingsKept ==
    ASSUME IInv, FInv, \A d \in Deletes : pc'[d] # "orphan",
           \A d \in Deletes : pc[d] = "drop" =>
              (pc'[d] = "drop" /\ at'[d] = at[d]) \/ filing'[at[d]] = {},
           \A k \in Keys :
              \/ filing'[k] \subseteq {pdf'[k]}
              \/ /\ filing'[k] \subseteq filing[k]
                 /\ pdf'[k] = pdf[k] \/ pdf[k] = None \/ Dropping(k)'
    PROVE  FInv'
  <1> SUFFICES ASSUME NEW k \in Keys PROVE filing'[k] \subseteq {pdf'[k]} \/ Dropping(k)'
    BY DEF FInv
  <1>1. CASE filing'[k] \subseteq {pdf'[k]}
    BY <1>1
  <1>2. CASE /\ filing'[k] \subseteq filing[k]
             /\ pdf'[k] = pdf[k] \/ pdf[k] = None \/ Dropping(k)'
    <2>1. CASE Dropping(k)
      <3>1. PICK d \in Deletes : at[d] = k /\ pc[d] = "drop"
        BY <2>1 DEF Dropping
      <3>2. filing'[k] = {} \/ Dropping(k)'
        BY <3>1 DEF Dropping
      <3> QED BY <3>2
    <2>2. CASE filing[k] \subseteq {pdf[k]}
      <3>1. pdf[k] = None => filing[k] = {}
        BY <2>2, DistinctAssumption DEF IInv, Typed
      <3> QED BY <1>2, <2>2, <3>1
    <2> QED BY <2>1, <2>2 DEF FInv
  <1> QED BY <1>1, <1>2

\* A step of one process that is no delete about to drop, and that leaves the PDFs
\* where they are or stores one where none was.
LEMMA FilingsApart ==
    ASSUME IInv, FInv, NEW p \in Procs, NEW to, pc' = [pc EXCEPT ![p] = to],
           p \in Deletes => to # "orphan" /\ pc[p] # "drop",
           \A q \in Requests : q # p => at'[q] = at[q],
           \A k \in Keys : pdf'[k] = pdf[k] \/ pdf[k] = None,
           \A k \in Keys : filing'[k] \subseteq filing[k] \/ filing'[k] \subseteq {pdf'[k]}
    PROVE  FInv'
  <1>1. \A q \in Procs : pc'[q] = IF q = p THEN to ELSE pc[q]
    BY DEF IInv, Typed
  <1>2. /\ \A d \in Deletes : pc'[d] # "orphan"
        /\ \A d \in Deletes : pc[d] = "drop" => pc'[d] = "drop" /\ at'[d] = at[d]
    BY <1>1 DEF FInv
  <1> QED BY <1>2, FilingsKept

LEMMA CaptureStepFInv ==
    ASSUME IInv, FInv, NEW u \in Uploads, CaptureStep(u)
    PROVE  FInv'
  <1> USE DEF Goto, disk, locks, local
  <1>a. /\ u \in Procs \ Deletes /\ at \in [Requests -> Keys \cup {None}]
        /\ pdf \in [Keys -> Uploads \cup {None}] /\ filing \in [Keys -> SUBSET Uploads]
    BY DistinctAssumption DEF IInv, Typed
  <1>1. \E to : pc' = [pc EXCEPT ![u] = to]
    BY DEF CaptureStep, ReadHeld, FirstLook, Place, Commit, Verify, Claim, Unfile, Stored,
           OrphanCommit
  <1>2. \A q \in Requests : q # u => at'[q] = at[q]
    BY <1>a DEF CaptureStep, ReadHeld, FirstLook, Place, Commit, Verify, Claim, Unfile, Stored,
           OrphanCommit
  <1>3. \A k \in Keys : pdf'[k] = pdf[k] \/ pdf[k] = None
    BY <1>a DEF CaptureStep, ReadHeld, FirstLook, Place, Commit, Verify, Claim, Unfile, Stored,
           OrphanCommit, Vacant
  <1>4. \A k \in Keys : filing'[k] \subseteq filing[k]
    <2>1. filing' = filing \/ filing' = [filing EXCEPT ![at[u]] = {}]
      BY DEF CaptureStep, ReadHeld, FirstLook, Place, Commit, Verify, Claim, Unfile, Stored,
             OrphanCommit
    <2> QED BY <2>1, <1>a
  <1> QED BY <1>a, <1>1, <1>2, <1>3, <1>4, FilingsApart

LEMMA DeleteStepFInv ==
    ASSUME IInv, FInv, NEW d \in Deletes, DeleteStep(d)
    PROVE  FInv'
  <1> USE DEF Goto, disk, locks, local, Finish
  <1>a. /\ d \in Procs /\ pc \in [Procs -> Points] /\ at \in [Requests -> Keys \cup {None}]
        /\ pdf \in [Keys -> Uploads \cup {None}] /\ filing \in [Keys -> SUBSET Uploads]
    BY DEF IInv, Typed
  <1>1. CASE Begin(d)
    <2>1. \A q \in Requests : q # d => at'[q] = at[q]
      BY <1>1, <1>a DEF Begin
    <2> QED BY <1>1, <2>1, <1>a, FilingsApart DEF Begin
  <1>2. CASE Record(d)
    BY <1>2, <1>a, FilingsApart DEF Record
  <1>3. CASE Trash(d)
    <2>1. /\ at[d] \in Keys /\ at' = at /\ filing' = filing /\ pc' = [pc EXCEPT ![d] = "drop"]
      BY <1>3 DEF Trash, IInv, Assigned
    <2>2. \A q \in Procs : pc'[q] = IF q = d THEN "drop" ELSE pc[q]
      BY <2>1, <1>a
    <2>3. Dropping(at[d])'
      BY <2>1, <2>2 DEF Dropping
    <2>4. \A k \in Keys : pdf'[k] = pdf[k] \/ Dropping(k)'
      BY <1>3, <1>a, <2>3 DEF Trash
    <2>5. \A e \in Deletes : pc'[e] # "orphan" /\ (pc[e] = "drop" => pc'[e] = "drop")
      BY <2>2 DEF FInv
    <2> QED BY <2>1, <2>4, <2>5, FilingsKept
  <1>4. CASE TrashFails(d)
    BY <1>4, <1>a, FilingsApart DEF TrashFails
  <1>5. CASE Withdraw(d)
    BY <1>5, <1>a, FilingsApart DEF Withdraw
  <1>6. CASE Drop(d)
    <2>1. /\ at[d] \in Keys /\ at' = at /\ pdf' = pdf /\ filing' = [filing EXCEPT ![at[d]] = {}]
          /\ pc' = [pc EXCEPT ![d] = "done"]
      BY <1>6 DEF Drop, IInv, Assigned
    <2>2. \A q \in Procs : pc'[q] = IF q = d THEN "done" ELSE pc[q]
      BY <2>1, <1>a
    <2>3. filing'[at[d]] = {} /\ \A k \in Keys : filing'[k] \subseteq filing[k]
      BY <2>1, <1>a
    <2>4. \A e \in Deletes : pc'[e] # "orphan" /\ (pc[e] = "drop" => e = d \/ pc'[e] = "drop")
      BY <2>2 DEF FInv
    <2> QED BY <2>1, <2>3, <2>4, FilingsKept
  <1>7. CASE OrphanTrash(d)
    BY <1>7 DEF OrphanTrash, FInv
  <1> QED BY <1>1, <1>2, <1>3, <1>4, <1>5, <1>6, <1>7 DEF DeleteStep

LEMMA OtherStepFInv ==
    ASSUME IInv, FInv,
           \/ \E f \in Forgets : ForgetStep(f)
           \/ \E r \in Rebuilds : RebuildStep(r)
           \/ \E n \in Filings : FileItem(n)
           \/ \E x \in Exporters : ExportStep(x)
    PROVE  FInv'
  <1> USE DEF Goto, disk, locks, local
  <1>a. /\ at \in [Requests -> Keys \cup {None}]
        /\ pdf \in [Keys -> Uploads \cup {None}] /\ filing \in [Keys -> SUBSET Uploads]
    BY DEF IInv, Typed
  <1>1. ASSUME NEW f \in Forgets, ForgetStep(f) PROVE FInv'
    <2>1. f \in Procs \ Deletes
      BY DistinctAssumption
    <2>2. /\ \E to : pc' = [pc EXCEPT ![f] = to]
          /\ pdf' = pdf /\ \A q \in Requests : q # f => at'[q] = at[q]
          /\ \A k \in Keys : filing'[k] \subseteq filing[k]
      BY <1>1, <1>a DEF ForgetStep, Listed, Forget, ForgetUnfile
    <2> QED BY <2>1, <2>2, FilingsApart
  <1>2. ASSUME NEW r \in Rebuilds, RebuildStep(r) PROVE FInv'
    <2>1. r \in Procs \ Deletes
      BY DistinctAssumption
    <2>2. /\ \E to : pc' = [pc EXCEPT ![r] = to]
          /\ filing' = filing /\ \A q \in Requests : q # r => at'[q] = at[q]
      BY <1>2, <1>a DEF RebuildStep, FindLost, CheckRemoved, FetchFails, LookToRestore, Restore, Restored, OrphanRestore
    <2>3. \A k \in Keys : pdf'[k] = pdf[k] \/ pdf[k] = None
      BY <1>2, <1>a DEF RebuildStep, FindLost, CheckRemoved, FetchFails, LookToRestore, Restore, Restored,
         OrphanRestore, PutBack, Vacant
    <2> QED BY <2>1, <2>2, <2>3, FilingsApart
  <1>3. ASSUME NEW n \in Filings, FileItem(n) PROVE FInv'
    <2>1. n \in Procs \ Deletes
      BY DistinctAssumption
    <2>2. PICK j \in Keys : filing' = [filing EXCEPT ![j] = @ \cup {pdf[j]}]
      BY <1>3 DEF FileItem
    <2>3. pc' = [pc EXCEPT ![n] = "done"] /\ UNCHANGED <<pdf, at>>
      BY <1>3 DEF FileItem
    <2>4. \A q \in Procs : pc'[q] = IF q = n THEN "done" ELSE pc[q]
      BY <2>1, <2>3 DEF IInv, Typed
    <2>5. \A d \in Deletes : pc'[d] = pc[d] /\ at'[d] = at[d]
      BY <2>1, <2>3, <2>4
    <2>6. \A k \in Keys : filing'[k] \subseteq filing[k] \cup {pdf[k]}
      BY <2>2, <1>a
    <2> QED BY <2>3, <2>5, <2>6 DEF FInv, Dropping
  <1>4. ASSUME NEW x \in Exporters, ExportStep(x) PROVE FInv'
    <2>1. x \in Procs \ Deletes
      BY DistinctAssumption
    <2>2. /\ \E to : pc' = [pc EXCEPT ![x] = to]
          /\ UNCHANGED <<pdf, at>>
      BY <1>4 DEF ExportStep, Wake, Snapshot, CheckPrevious, Write, Prune, PruneFiling
    <2>3. \A k \in Keys : filing'[k] \subseteq filing[k]
      BY <1>4, <1>a DEF ExportStep, Wake, Snapshot, CheckPrevious, Write, Prune, PruneFiling
    <2> QED BY <2>1, <2>2, <2>3, FilingsApart
  <1> QED BY <1>1, <1>2, <1>3, <1>4

LEMMA EnvironmentFInv ==
    ASSUME IInv, FInv, Environment, MaxLosses = 0, MaxCrashes = 0, Cancellable \cap Deletes = {}
    PROVE  FInv'
  <1> USE DEF disk, locks, local, env
  <1>a. losses \in 0..0 /\ crashes \in 0..0
    BY DEF IInv, Typed
  <1>1. ~Crash /\ \A k \in Keys : ~Lose(k)
    BY <1>a DEF Crash, Lose
  <1>2. ASSUME NEW p \in Cancellable, Cancel(p) PROVE FInv'
    <2>1. p \in Procs \ Deletes
      BY KindAssumption, Cancellable \cap Deletes = {}
    <2>2. \E to : pc' = [pc EXCEPT ![p] = to]
      BY <1>2 DEF Cancel
    <2>3. UNCHANGED <<pdf, at, filing>>
      BY <1>2 DEF Cancel
    <2> QED BY <2>1, <2>2, <2>3, FilingsApart
  <1> QED BY <1>1, <1>2 DEF Environment

\* Once its capture is answered, an item's filing holds nothing another item left
\* under its key, but for what a delete is about to drop: with any number of captures,
\* deletes, forgets, rebuilds and exports, in the app or as commands, captures cut off
\* anywhere, and clients that act on an item before its capture is answered, as long as
\* no delete is cut off and no PDF goes missing by itself (claim, drop and prune of
\* OrganizationStore).
THEOREM FilingOwnedHolds ==
    ASSUME MaxLosses = 0, MaxCrashes = 0, Cancellable \cap Deletes = {}
    PROVE  Spec => []FilingOwned
  <1> DEFINE I == IInv /\ FInv
  <1>1. Init => I
    BY InitIInv, DistinctAssumption DEF Init, FInv
  <1>2. I /\ [Next]_vars => I'
    <2> SUFFICES ASSUME I, [Next]_vars PROVE FInv'
      BY NextIInv
    <2>1. CASE UNCHANGED vars
      BY <2>1 DEF vars, disk, locks, local, FInv, Dropping
    <2>2. CASE Next
      BY <2>2, CaptureStepFInv, DeleteStepFInv, OtherStepFInv, EnvironmentFInv DEF Next
    <2> QED BY <2>1, <2>2
  <1>3. I => FilingOwned
    BY DEF FInv, FilingOwned, Dropping
  <1> QED BY <1>1, <1>2, <1>3, PTL DEF Spec

-----------------------------------------------------------------------------
(* The export against the items removed on purpose, with one delete.       *)

view == seen[App]

\* One delete that is not cut off, and nothing that takes a PDF out or brings one back
\* beside it; the app alone exports.
Alone(d) ==
    /\ Deletes = {d} /\ Forgets = {} /\ Rebuilds = {} /\ CliExports = {}
    /\ Cancellable \cap Deletes = {}
    /\ Patient /\ MaxLosses = 0

Before == {"idle", "look", "place", "commit"}    \* a capture that has stored nothing

\* An item is stored, exported and seen under its capture's key alone.
Known ==
    \A u \in Uploads, k \in Keys :
        u \in {pdf[k], export[k], view.stored[k]} => at[u] = k /\ pc[u] \notin Before
\* A capture that stored its PDF finds it there until it answers.
Owned == \A u \in Uploads : pc[u] \in {"verify", "claim", "unfile"} => pdf[at[u]] = u
Exporting ==
    /\ pc[App] \in {"wait", "snapshot"} => view = Unseen
    /\ pc[App] \in {"prune", "pruneFiling"} => export = view.stored
\* Whatever is removed, the delete removed.
Removals(d) ==
    /\ left \subseteq {item[d]} /\ removed \cup view.removed \subseteq {at[d]}
    /\ pc[d] \in {"idle", "record"} => left = {} /\ removed = {} /\ view.removed = {}
    /\ pc[d] \in {"idle", "record", "trash", "withdraw", "drop", "done"}
    /\ pc[d] # "idle" => at[item[d]] = at[d] /\ pc[item[d]] = "done"
\* Until it is decided the item is stored; its key is marked.
Deciding(d) ==
    /\ pc[d] \in {"record", "trash", "withdraw"} => pdf[at[d]] = item[d]
    /\ pc[d] \in {"trash", "withdraw"} => at[d] \in removed
\* Once the item is gone, its key is marked, or taken, or the item out of the export for good.
Gone(d) ==
    /\ pc[d] \in {"drop", "done"} /\ left # {} =>
           \/ at[d] \in removed \/ pdf[at[d]] # None
           \/ item[d] \notin {export[at[d]], view.stored[at[d]]}
    /\ view.removed # {} /\ view.stored[at[d]] = None => pc[d] \in {"drop", "done"}
DInv(d) == Known /\ Owned /\ Exporting /\ Removals(d) /\ Deciding(d) /\ Gone(d)

SoundTypes(d) ==
    /\ d \in Procs \ Uploads /\ App \in Procs \ Requests /\ d # App /\ App \notin Uploads
    /\ Uploads \subseteq Procs /\ None \notin Uploads
    /\ pc \in [Procs -> Points] /\ at \in [Requests -> Keys \cup {None}]
    /\ {pdf, export, view.stored} \subseteq [Keys -> Uploads \cup {None}]
    /\ removed \subseteq Keys
    /\ seen \in [{App} -> [stored : [Keys -> Uploads \cup {None}], removed : SUBSET Keys]]
    /\ item \in [{d} -> Uploads \cup {None}]
    /\ pc[d] # "idle" => at[d] \in Keys /\ item[d] \in Uploads
LEMMA DeleteTyped ==
    ASSUME NEW d \in Deletes, Alone(d), IInv
    PROVE  SoundTypes(d)
  BY DistinctAssumption DEF Alone, IInv, Typed, Assigned, SoundTypes, view

\* A step that leaves the documents, the delete and what the exporter sees.
LEMMA Elsewhere ==
    ASSUME NEW d \in Deletes, Alone(d), IInv, DInv(d), UNCHANGED <<pdf, removed, export, seen, left, item>>,
           pc'[d] = pc[d], at'[d] = at[d],
           \/ pc'[App] = pc[App]
           \/ pc'[App] = "snapshot" /\ pc[App] = "wait",
           \A u \in Uploads :
              /\ pc[u] \notin Before => pc'[u] \notin Before /\ at'[u] = at[u]
              /\ pc'[u] \in {"verify", "claim", "unfile"} => pc[u] \in {"verify", "claim", "unfile"}
              /\ pc[u] = "done" => pc'[u] = "done"
    PROVE  DInv(d)'
  <1>t. SoundTypes(d)
    BY DeleteTyped
  <1> USE <1>t DEF SoundTypes, view, DInv
  <1>1. Known' BY DEF Known
  <1>2. Owned' BY DEF Owned, Before
  <1>3. Exporting' BY DEF Exporting
  <1>4. Removals(d)'
    <2>1. pc[d] # "idle" => at'[item[d]] = at[item[d]] /\ pc'[item[d]] = "done"
      BY DEF Removals, Before
    <2> QED BY <2>1 DEF Removals
  <1>5. Deciding(d)' BY DEF Deciding
  <1>6. Gone(d)' BY DEF Gone
  <1> QED BY <1>1, <1>2, <1>3, <1>4, <1>5, <1>6

\* The captures move on beside the delete.
LEMMA CaptureStepDInv ==
    ASSUME NEW d \in Deletes, Alone(d), IInv, DInv(d), NEW u \in Uploads, CaptureStep(u)
    PROVE  DInv(d)'
  <1>t. SoundTypes(d)
    BY DeleteTyped
  <1> USE <1>t DEF SoundTypes, view, Goto, disk, locks, local
  <1>b. u \notin {d, App}
    OBVIOUS
  <1>1. ASSUME NEW to, pc' = [pc EXCEPT ![u] = to], at' = at \/ pc[u] \in Before,
               \A q \in Requests : q # u => at'[q] = at[q],
               UNCHANGED <<pdf, removed, export, seen, left, item>>,
               pc[u] \in Before \/ to \notin Before,
               to \in {"verify", "claim", "unfile"} => pc[u] \in {"verify", "claim", "unfile"},
               pc[u] # "done"
        PROVE  DInv(d)'
    <2>1. \A q \in Procs : pc'[q] = IF q = u THEN to ELSE pc[q]
      BY <1>1
    <2> QED BY <1>1, <1>b, <2>1, Elsewhere DEF Alone
  <1>2. CASE ReadHeld(u)
    BY <1>2, <1>1 DEF ReadHeld, Before
  <1>3. CASE FirstLook(u)
    BY <1>3, <1>1 DEF FirstLook, Before
  <1>4. CASE Place(u)
    <2>1. \A q \in Requests : q # u => at'[q] = at[q]
      BY <1>4 DEF Place
    <2>2. \E to \in {"stored", "done", "commit"} : pc' = [pc EXCEPT ![u] = to]
      BY <1>4 DEF Place
    <2>3. pc[u] = "place" /\ UNCHANGED <<pdf, removed, export, seen, left, item>>
      BY <1>4 DEF Place
    <2> QED BY <1>1, <2>1, <2>2, <2>3 DEF Before
  <1>5. CASE Verify(u)
    <2>1. \E to \in {"done", "claim"} : pc' = [pc EXCEPT ![u] = to]
      BY <1>5 DEF Verify
    <2>2. pc[u] = "verify" /\ UNCHANGED <<pdf, removed, export, seen, left, item, at>>
      BY <1>5 DEF Verify
    <2> QED BY <1>1, <2>1, <2>2 DEF Before
  <1>6. CASE Unfile(u)
    BY <1>6, <1>1 DEF Unfile, Before
  <1>7. CASE Stored(u)
    BY <1>7, <1>1 DEF Stored, Before
  <1>8. ASSUME NEW to \in {"verify", "done"}, pc' = [pc EXCEPT ![u] = to], pc[u] \in {"commit", "orphan"},
               UNCHANGED <<removed, export, at, seen, left, item>>,
               \/ pdf[at[u]] = None /\ pdf' = [pdf EXCEPT ![at[u]] = u]
               \/ to = "done" /\ pdf' = pdf
        PROVE  DInv(d)'
    <2>1. \A q \in Procs : pc'[q] = IF q = u THEN to ELSE pc[q]
      BY <1>8
    <2>2. at[u] \in Keys
      BY <1>8 DEF IInv, Assigned
    <2>3. \A k \in Keys : pdf'[k] = pdf[k] \/ (pdf[k] = None /\ k = at[u] /\ pdf'[k] = u)
      BY <1>8, <2>2
    <2>4. \A q \in Uploads : q # u => pc'[q] = pc[q]
      BY <2>1
    <2>5. pc'[u] = to /\ pc'[d] = pc[d] /\ pc'[App] = pc[App]
      BY <2>1, <1>b DEF Alone
    <2>6. Known'
      BY <1>8, <2>3, <2>4, <2>5 DEF DInv, Known, Before
    <2>7. Owned'
      <3>1. \A v \in Uploads : pc'[v] \in {"verify", "claim", "unfile"} => at[v] \in Keys
        BY <2>2, <2>4 DEF IInv, Assigned
      <3>2. to = "verify" => pdf'[at[u]] = u
        BY <1>8, <2>2
      <3> QED BY <1>8, <2>3, <2>4, <2>5, <3>1, <3>2 DEF DInv, Owned
    <2>8. Exporting' /\ Removals(d)'
      BY <1>8, <2>4, <2>5 DEF DInv, Exporting, Removals
    <2>9. Deciding(d)' /\ Gone(d)'
      BY <1>8, <2>3, <2>5 DEF DInv, Deciding, Gone
    <2> QED BY <2>6, <2>7, <2>8, <2>9 DEF DInv
  <1>9. CASE Commit(u)
    BY <1>9, <1>8 DEF Commit, Vacant
  <1>10. CASE OrphanCommit(u)
    BY <1>10, <1>8 DEF OrphanCommit, Vacant
  <1>11. CASE Claim(u)
    <2>1. PICK to \in {"unfile", "stored"} :
             pc' = [pc EXCEPT ![u] = to] /\ pc[u] = "claim" /\ removed' = removed \ {at[u]}
             /\ UNCHANGED <<pdf, export, at, seen, left, item>>
      BY <1>11 DEF Claim
    <2>2. \A q \in Procs : pc'[q] = IF q = u THEN to ELSE pc[q]
      BY <2>1
    <2>3. pdf[at[u]] = u /\ pc[u] # "done"
      BY <2>1 DEF DInv, Owned
    <2>4. Known' /\ Owned' /\ Exporting' /\ Removals(d)'
      BY <2>1, <2>2, <1>b DEF DInv, Known, Owned, Exporting, Removals, Before, Alone
    <2>5. pc'[d] = pc[d]
      BY <2>2, <1>b
    <2>6. Deciding(d)'
      BY <2>1, <2>3, <2>5 DEF DInv, Deciding, Removals
    <2>7. Gone(d)'
      BY <2>1, <2>3, <2>5 DEF DInv, Gone
    <2> QED BY <2>4, <2>6, <2>7 DEF DInv
  <1> QED BY <1>2, <1>3, <1>4, <1>5, <1>6, <1>7, <1>9, <1>10, <1>11 DEF CaptureStep

LEMMA DeleteStepDInv ==
    ASSUME NEW d \in Deletes, Alone(d), IInv, DInv(d), DeleteStep(d)
    PROVE  DInv(d)'
  <1>t. SoundTypes(d)
    BY DeleteTyped
  <1> USE <1>t DEF SoundTypes, view, Goto, disk, locks, local, Finish
  <1>1. ASSUME pc' = [pc EXCEPT ![d] = pc'[d]], UNCHANGED <<export, seen, at, item>>,
               pc[d] # "idle",
               \A k \in Keys : pdf'[k] = pdf[k] \/ (k = at[d] /\ pc[d] = "trash" /\ pdf'[k] = None)
        PROVE  /\ \A q \in Procs : q # d => pc'[q] = pc[q]
               /\ Known' /\ Owned' /\ Exporting'
               /\ at'[item'[d]] = at'[d] /\ pc'[item'[d]] = "done"
    <2>1. \A q \in Procs : q # d => pc'[q] = pc[q]
      BY <1>1
    <2>2. \A v \in Uploads : pc'[v] = pc[v]
      BY <2>1
    <2>3. pc'[App] = pc[App]
      BY <2>1
    <2>4. Known'
      BY <1>1, <2>2 DEF DInv, Known
    <2>5. Owned'
      <3>1. \A v \in Uploads : pc[v] \in {"verify", "claim", "unfile"} => at[v] \in Keys
        BY DEF IInv, Assigned
      <3>2. pc[d] = "trash" => pdf[at[d]] = item[d] /\ pc[item[d]] = "done"
        BY DEF DInv, Deciding, Removals
      <3> QED BY <1>1, <2>2, <3>1, <3>2 DEF DInv, Owned
    <2>6. Exporting'
      BY <1>1, <2>3 DEF DInv, Exporting
    <2>7. at'[item'[d]] = at'[d] /\ pc'[item'[d]] = "done"
      BY <1>1, <2>2 DEF DInv, Removals
    <2> QED BY <2>1, <2>4, <2>5, <2>6, <2>7
  <1>2. CASE Begin(d)
    <2>1. PICK k \in Keys : Shown(k) /\ at' = [at EXCEPT ![d] = k] /\ item' = [item EXCEPT ![d] = pdf[k]]
      BY <1>2 DEF Begin
    <2>2. /\ pc[d] = "idle" /\ pc' = [pc EXCEPT ![d] = "record"]
          /\ UNCHANGED <<pdf, export, removed, seen, left>>
      BY <1>2 DEF Begin
    <2>3. \A q \in Procs : pc'[q] = IF q = d THEN "record" ELSE pc[q]
      BY <2>2
    <2>4. at'[d] = k /\ item'[d] = pdf[k] /\ \A q \in Requests : q # d => at'[q] = at[q]
      BY <2>1
    <2>5. pdf[k] \in Uploads /\ pc[pdf[k]] = "done"
      BY <2>1 DEF Shown, Alone
    <2>6. at[pdf[k]] = k
      BY <2>5 DEF DInv, Known
    <2>7. Known' /\ Owned' /\ Exporting'
      BY <2>2, <2>3, <2>4 DEF DInv, Known, Owned, Exporting
    <2>8. Removals(d)'
      BY <2>2, <2>3, <2>4, <2>5, <2>6 DEF DInv, Removals
    <2>9. Deciding(d)' /\ Gone(d)'
      BY <2>2, <2>3, <2>4 DEF DInv, Deciding, Gone, Removals
    <2> QED BY <2>7, <2>8, <2>9 DEF DInv
  <1>3. CASE Record(d)
    <2>1. /\ pc[d] = "record" /\ pc'[d] = "trash" /\ pc' = [pc EXCEPT ![d] = pc'[d]]
          /\ removed' = removed \cup {at[d]} /\ left' = left \cup {item[d]}
          /\ UNCHANGED <<pdf, export, seen, at, item>>
      BY <1>3 DEF Record
    <2>2. /\ \A q \in Procs : q # d => pc'[q] = pc[q]
          /\ Known' /\ Owned' /\ Exporting' /\ at'[item'[d]] = at'[d] /\ pc'[item'[d]] = "done"
      BY <1>1, <2>1
    <2>3. Removals(d)' /\ Deciding(d)' /\ Gone(d)'
      BY <2>1, <2>2 DEF DInv, Removals, Deciding, Gone
    <2> QED BY <2>2, <2>3 DEF DInv
  <1>4. CASE Trash(d)
    <2>1. /\ pc[d] = "trash" /\ pc'[d] = "drop" /\ pc' = [pc EXCEPT ![d] = pc'[d]]
          /\ pdf' = [pdf EXCEPT ![at[d]] = None] /\ left' = left \cup {pdf[at[d]]}
          /\ UNCHANGED <<removed, export, seen, at, item>>
      BY <1>4 DEF Trash
    <2>2. \A k \in Keys : pdf'[k] = pdf[k] \/ (k = at[d] /\ pdf'[k] = None)
      BY <2>1
    <2>3. /\ \A q \in Procs : q # d => pc'[q] = pc[q]
          /\ Known' /\ Owned' /\ Exporting' /\ at'[item'[d]] = at'[d] /\ pc'[item'[d]] = "done"
      BY <1>1, <2>1, <2>2
    <2>4. Removals(d)' /\ Deciding(d)' /\ Gone(d)'
      BY <2>1, <2>3 DEF DInv, Removals, Deciding, Gone
    <2> QED BY <2>3, <2>4 DEF DInv
  <1>5. CASE TrashFails(d)
    <2>1. /\ pc[d] = "trash" /\ pc'[d] = "withdraw" /\ pc' = [pc EXCEPT ![d] = pc'[d]]
          /\ UNCHANGED <<pdf, removed, export, seen, at, item, left>>
      BY <1>5 DEF TrashFails
    <2>2. /\ \A q \in Procs : q # d => pc'[q] = pc[q]
          /\ Known' /\ Owned' /\ Exporting' /\ at'[item'[d]] = at'[d] /\ pc'[item'[d]] = "done"
      BY <1>1, <2>1
    <2>3. Removals(d)' /\ Deciding(d)' /\ Gone(d)'
      BY <2>1, <2>2 DEF DInv, Removals, Deciding, Gone
    <2> QED BY <2>2, <2>3 DEF DInv
  <1>6. CASE Withdraw(d)
    <2>1. /\ pc[d] = "withdraw" /\ pc'[d] = "done" /\ pc' = [pc EXCEPT ![d] = pc'[d]]
          /\ removed' = removed \ {at[d]} /\ left' = left \ {pdf[at[d]]}
          /\ UNCHANGED <<pdf, export, seen, at, item>>
      BY <1>6 DEF Withdraw
    <2>2. /\ \A q \in Procs : q # d => pc'[q] = pc[q]
          /\ Known' /\ Owned' /\ Exporting' /\ at'[item'[d]] = at'[d] /\ pc'[item'[d]] = "done"
      BY <1>1, <2>1
    <2>3. Removals(d)' /\ Deciding(d)' /\ Gone(d)'
      BY <2>1, <2>2 DEF DInv, Removals, Deciding, Gone
    <2> QED BY <2>2, <2>3 DEF DInv
  <1>7. CASE Drop(d)
    <2>1. /\ pc[d] = "drop" /\ pc'[d] = "done" /\ pc' = [pc EXCEPT ![d] = pc'[d]]
          /\ UNCHANGED <<pdf, removed, export, seen, at, item, left>>
      BY <1>7 DEF Drop
    <2>2. /\ \A q \in Procs : q # d => pc'[q] = pc[q]
          /\ Known' /\ Owned' /\ Exporting' /\ at'[item'[d]] = at'[d] /\ pc'[item'[d]] = "done"
      BY <1>1, <2>1
    <2>3. Removals(d)' /\ Deciding(d)' /\ Gone(d)'
      BY <2>1, <2>2 DEF DInv, Removals, Deciding, Gone
    <2> QED BY <2>2, <2>3 DEF DInv
  <1>8. ~OrphanTrash(d)
    BY DEF OrphanTrash, DInv, Removals
  <1> QED BY <1>2, <1>3, <1>4, <1>5, <1>6, <1>7, <1>8 DEF DeleteStep

\* The exporter's own steps.
LEMMA ExportStepDInv ==
    ASSUME NEW d \in Deletes, Alone(d), IInv, DInv(d), ExportStep(App)
    PROVE  DInv(d)'
  <1>t. SoundTypes(d)
    BY DeleteTyped
  <1> USE <1>t DEF SoundTypes, view, Goto, disk, locks, local, Ended, Unseen, NoKeys
  <1>1. ASSUME pc' = [pc EXCEPT ![App] = pc'[App]], UNCHANGED <<pdf, at, item, left>>,
               {export'} \cup {view'.stored} \subseteq {export, view.stored, NoKeys, pdf},
               Removals(d)', Deciding(d)', Gone(d)', Exporting'
        PROVE  DInv(d)'
    <2>1. \A q \in Procs : q # App => pc'[q] = pc[q]
      BY <1>1
    <2>2. Known'
      BY <1>1, <2>1 DEF DInv, Known
    <2>3. Owned'
      BY <1>1, <2>1 DEF DInv, Owned
    <2> QED BY <1>1, <2>2, <2>3 DEF DInv
  <1>2. ASSUME pc' = [pc EXCEPT ![App] = pc'[App]], UNCHANGED <<at, item, left>>,
               removed' \subseteq removed, view'.removed \subseteq removed \cup view.removed
        PROVE  /\ Removals(d)' /\ pc'[d] = pc[d]
               /\ pc[d] # "idle" => item[d] # None
    BY <1>2 DEF DInv, Removals
  <1>3. CASE Wake(App)
    BY <1>3, Elsewhere DEF Wake
  <1>4. CASE Snapshot(App)
    <2>1. /\ pc' = [pc EXCEPT ![App] = pc'[App]] /\ pc'[App] = "previous"
          /\ view' = [stored |-> pdf, removed |-> removed]
          /\ UNCHANGED <<pdf, removed, export, at, item, left>>
      BY <1>4 DEF Snapshot
    <2>2. Removals(d)' /\ pc'[d] = pc[d] /\ (pc[d] # "idle" => item[d] # None)
      BY <1>2, <2>1
    <2>3. Deciding(d)'
      BY <2>1, <2>2 DEF DInv, Deciding
    <2>4. Gone(d)'
      BY <2>1, <2>2 DEF DInv, Gone, Removals, Deciding
    <2>5. Exporting'
      BY <2>1 DEF Exporting
    <2> QED BY <1>1, <2>1, <2>2, <2>3, <2>4, <2>5
  <1>5. ASSUME pc' = [pc EXCEPT ![App] = pc'[App]],
               UNCHANGED <<pdf, removed, at, item, left>>,
               export' \in {export, view.stored}, view' \in {view, Unseen}, Exporting'
        PROVE  DInv(d)'
    <2>1. Removals(d)' /\ pc'[d] = pc[d] /\ (pc[d] # "idle" => item[d] # None)
      BY <1>2, <1>5
    <2>2. Deciding(d)'
      BY <1>5, <2>1 DEF DInv, Deciding
    <2>3. Gone(d)'
      BY <1>5, <2>1 DEF DInv, Gone
    <2> QED BY <1>1, <1>5, <2>1, <2>2, <2>3
  <1>6. CASE CheckPrevious(App)
    <2>1. /\ pc' = [pc EXCEPT ![App] = pc'[App]]
          /\ \/ pc'[App] = "write" /\ view' = view
             \/ pc'[App] = "wait" /\ view' = Unseen
          /\ UNCHANGED <<pdf, removed, export, at, item, left>>
      BY <1>6 DEF CheckPrevious
    <2> QED BY <1>5, <2>1 DEF Exporting
  <1>7. CASE Write(App)
    <2>1. /\ pc' = [pc EXCEPT ![App] = pc'[App]] /\ export' = view.stored
          /\ \/ pc'[App] = "prune" /\ view' = view
             \/ pc'[App] = "wait" /\ view' = Unseen
          /\ UNCHANGED <<pdf, removed, at, item, left>>
      BY <1>7 DEF Write
    <2> QED BY <1>5, <2>1 DEF Exporting
  <1>8. CASE Prune(App)
    <2>1. /\ pc' = [pc EXCEPT ![App] = pc'[App]] /\ pc'[App] = "pruneFiling"
          /\ pc[App] = "prune" /\ removed' = removed \ Dropped(App)
          /\ UNCHANGED <<pdf, export, seen, at, item, left>>
      BY <1>8 DEF Prune
    <2>2. Removals(d)' /\ pc'[d] = pc[d] /\ (pc[d] # "idle" => item[d] # None)
      BY <1>2, <2>1
    <2>3. export = view.stored
      BY <2>1 DEF DInv, Exporting
    <2>4. at[d] \in Dropped(App) => pc[d] \in {"drop", "done"} /\ view.stored[at[d]] = None
      BY DEF Dropped, DInv, Gone
    <2>5. Deciding(d)'
      BY <2>1, <2>2, <2>4 DEF DInv, Deciding
    <2>6. Gone(d)'
      BY <2>1, <2>2, <2>3, <2>4 DEF DInv, Gone
    <2> QED BY <1>1, <2>1, <2>2, <2>3, <2>5, <2>6 DEF Exporting
  <1>9. CASE PruneFiling(App)
    <2>1. /\ pc' = [pc EXCEPT ![App] = pc'[App]] /\ pc'[App] = "wait" /\ view' = Unseen
          /\ UNCHANGED <<pdf, removed, export, at, item, left>>
      BY <1>9 DEF PruneFiling
    <2> QED BY <1>5, <2>1 DEF Exporting
  <1> QED BY <1>3, <1>4, <1>6, <1>7, <1>8, <1>9 DEF ExportStep

\* The other steps there are: a filing, a crash, a client that disconnects, none.
LEMMA OtherStepDInv ==
    ASSUME NEW d \in Deletes, Alone(d), IInv, DInv(d),
           \/ \E n \in Filings : FileItem(n)
           \/ Environment
           \/ vars' = vars
    PROVE  DInv(d)'
  <1>t. SoundTypes(d)
    BY DeleteTyped
  <1> USE <1>t DEF SoundTypes, Goto, disk, locks, local, env
  <1>1. ASSUME NEW n \in Filings, FileItem(n)
        PROVE  DInv(d)'
    <2>1. n \notin Uploads \cup {d, App}
      BY DistinctAssumption
    <2> QED BY <1>1, <2>1, Elsewhere DEF FileItem
  <1>2. ASSUME NEW p \in Cancellable, Cancel(p)
        PROVE  DInv(d)'
    <2>1. p \in Procs /\ p \notin {d, App}
      BY KindAssumption DEF Alone
    <2>2. {p} \cap Deletes = {}
      BY <2>1 DEF Alone
    <2>3. left' = left
      <3>1. Undecided({p} \cap Deletes) = {}
        BY <2>2 DEF Undecided
      <3> QED BY <1>2, <3>1 DEF Cancel
    <2>4. /\ pc' = [pc EXCEPT ![p] = pc'[p]] /\ pc'[p] \in {"done", "orphan"}
          /\ pc[p] # "done"
          /\ UNCHANGED <<pdf, removed, export, seen, item, at>>
      BY <1>2, <2>1 DEF Cancel, Running
    <2>5. \A q \in Procs : q # p => pc'[q] = pc[q]
      BY <2>1, <2>4
    <2>6. pc'[d] = pc[d] /\ pc'[App] = pc[App]
      BY <2>1, <2>5
    <2>7. \A u \in Uploads :
             /\ pc[u] \notin Before => pc'[u] \notin Before /\ at'[u] = at[u]
             /\ pc'[u] \in {"verify", "claim", "unfile"} => pc[u] \in {"verify", "claim", "unfile"}
             /\ pc[u] = "done" => pc'[u] = "done"
      BY <2>4, <2>5 DEF Before
    <2> QED BY <2>3, <2>4, <2>6, <2>7, Elsewhere
  <1>3. ~ \E k \in Keys : Lose(k)
    BY DEF Alone, Lose, IInv, Typed
  <1>5. CASE Crash
    <2>0. InApp = Procs
      BY KindAssumption DEF InApp, Alone
    <2>1. /\ \A q \in Procs : pc'[q] = IF q = App THEN "wait"
                                      ELSE IF Running(q) \/ pc[q] = "orphan" THEN "done" ELSE pc[q]
          /\ view' = Unseen
          /\ UNCHANGED <<pdf, removed, export, at, item>>
      BY <1>5, <2>0 DEF Crash, view
    <2>2. left' \subseteq left /\ (pc[d] \in {"trash", "withdraw"} => left' = {})
      <3>1. PICK ended : ended = {p \in InApp : Running(p) \/ pc[p] = "orphan"}
        OBVIOUS
      <3>2. left' = left \ Undecided(ended \cap Deletes)
        BY <1>5, <3>1 DEF Crash
      <3>3. ASSUME pc[d] \in {"trash", "withdraw"}
            PROVE  item[d] \in Undecided(ended \cap Deletes)
        <4>1. d \in ended \cap Deletes
          BY <2>0, <3>1, <3>3 DEF Running, Alone
        <4>2. item[d] \in StoredItems
          BY <3>3 DEF DInv, Deciding, StoredItems
        <4> QED BY <3>3, <4>1, <4>2 DEF Undecided
      <3>4. left \subseteq {item[d]}
        BY DEF DInv, Removals
      <3>5. left' \subseteq left
        BY <3>2, Zenon
      <3>6. ASSUME pc[d] \in {"trash", "withdraw"}, NEW i \in left'
            PROVE  FALSE
        <4>1. i \in left /\ i \notin Undecided(ended \cap Deletes)
          BY <3>2, <3>6, Zenon
        <4> QED BY <3>3, <3>4, <3>6, <4>1
      <3> QED BY <3>5, <3>6
    <2>3. Known' /\ Owned' /\ Exporting'
      BY <2>1 DEF DInv, Known, Owned, Exporting, Before, Running, Unseen, NoKeys, view
    <2>4. pc'[d] = IF pc[d] = "idle" THEN "idle" ELSE "done"
      BY <2>1 DEF Running, DInv, Removals
    <2>5. Removals(d)' /\ Deciding(d)'
      BY <2>1, <2>2, <2>4 DEF DInv, Removals, Deciding, Unseen, Running, view
    <2>6. Gone(d)'
      BY <2>1, <2>2, <2>4 DEF DInv, Gone, Removals, Unseen, NoKeys, view
    <2> QED BY <2>3, <2>5, <2>6 DEF DInv
  <1>4. CASE vars' = vars
    BY <1>4, Elsewhere DEF vars
  <1> QED BY <1>1, <1>2, <1>3, <1>4, <1>5 DEF Environment

LEMMA DInvNeverMissing ==
    ASSUME NEW d \in Deletes, Alone(d), IInv, DInv(d)
    PROVE  DeliberateNeverMissing
  <1>t. SoundTypes(d)
    BY DeleteTyped
  <1> SUFFICES ASSUME NEW k \in Keys, export[k] \in left, pdf[k] = None
               PROVE  k \in removed
    BY DEF DeliberateNeverMissing
  <1>1. export[k] = item[d] /\ pc[d] \notin {"idle", "record"} /\ item[d] \in Uploads
    BY <1>t DEF DInv, Removals, SoundTypes
  <1>2. at[d] = k
    BY <1>1 DEF DInv, Known, Removals
  <1> QED BY <1>1, <1>2, <1>t DEF DInv, Removals, Deciding, Gone, Typed

\* An item the one delete removed on purpose is not reported missing, whatever captures,
\* filings and exports run between its steps, whoever disconnects from them, and whenever
\* the app crashes.
THEOREM DeliberateNeverMissingHolds ==
    ASSUME NEW d \in Deletes, Deletes = {d}, Forgets = {}, Rebuilds = {}, CliExports = {},
           Cancellable \cap Deletes = {}, Patient, MaxLosses = 0
    PROVE  Spec => []DeliberateNeverMissing
  <1>a. Alone(d)
    BY DEF Alone
  <1>1. Init => DInv(d)
    BY <1>a, DistinctAssumption
    DEF Alone, Init, DInv, Known, Owned, Exporting, Removals, Deciding, Gone, view, Unseen, NoKeys
  <1>2. IInv /\ DInv(d) /\ [Next]_vars => DInv(d)'
    <2> SUFFICES ASSUME IInv, DInv(d), [Next]_vars
                 PROVE  DInv(d)'
      OBVIOUS
    <2>1. ASSUME NEW e \in Deletes, DeleteStep(e)
          PROVE  DInv(d)'
      BY <1>a, <2>1, DeleteStepDInv DEF Alone
    <2>2. ASSUME NEW x \in Exporters, ExportStep(x)
          PROVE  DInv(d)'
      BY <1>a, <2>2, ExportStepDInv DEF Alone
    <2>3. ASSUME NEW u \in Uploads, CaptureStep(u)
          PROVE  DInv(d)'
      BY <1>a, <2>3, CaptureStepDInv
    <2> QED BY <1>a, <2>1, <2>2, <2>3, OtherStepDInv DEF Next, Alone
  <1>3. IInv /\ DInv(d) => DeliberateNeverMissing
    BY <1>a, DInvNeverMissing
  <1> QED BY InitIInv, NextIInv, <1>1, <1>2, <1>3, PTL DEF Spec

-----------------------------------------------------------------------------
(* The export against the items that were lost.                            *)

\* Each PDF brings names of its own: no key is stored under twice.
OwnNames ==
    \A u, v \in Uploads : \A i \in DOMAIN Candidate[u], j \in DOMAIN Candidate[v] :
        Candidate[u][i] = Candidate[v][j] => u = v
\* Nothing brings a PDF back or leaves a removal undecided, and the app alone exports.
Decided ==
    /\ OwnNames /\ Rebuilds = {} /\ CliExports = {} /\ MaxCrashes = 0
    /\ Cancellable \cap Deletes = {}

\* The capture of u chose key k, and stores nothing there any more.
Past(u, k) == at[u] = k /\ pc[u] \notin Before \cup {"orphan"}
Named ==
    \A u \in Uploads : at[u] = None \/ \E i \in DOMAIN Candidate[u] : at[u] = Candidate[u][i]
StoredPast ==
    \A u \in Uploads, k \in Keys : u \in {pdf[k], export[k], view.stored[k]} => Past(u, k)
Targets ==
    /\ \A p \in Removing : pc[p] # "idle" => Past(item[p], at[p])
    /\ \A d \in Deletes : pc[d] # "orphan"
    /\ \A f \in Forgets : pc[f] \in {"idle", "forget", "unfile", "done"}
    /\ \A u \in Uploads : pc[u] \notin {"trash", "restore"}
\* What a mark is about left on purpose, or else its mark went with it.
Marked == \A k \in removed : \E u \in left : Past(u, k)
\* An export about to be written leaves out only what left on purpose and is gone.
Excused ==
    /\ pc[App] \in {"previous", "write"} =>
          \A k \in view.removed : view.stored[k] = None /\ export[k] # None =>
              export[k] \in left /\ pdf[k] = None
    /\ pc[App] = "write" =>
          \A k \in Keys : view.stored[k] = None /\ export[k] # None => k \in view.removed
LInv == Named /\ StoredPast /\ Targets /\ Marked /\ Excused

LEMMA LostTyped ==
    ASSUME IInv, Decided
    PROVE  /\ Exporters = {App} /\ App \notin Requests /\ Uploads \cap Removing = {}
           /\ None \notin Uploads /\ None \notin Keys
           /\ pc \in [Procs -> Points] /\ at \in [Requests -> Keys \cup {None}]
           /\ {pdf, export, view.stored} \subseteq [Keys -> Uploads \cup {None}]
           /\ removed \subseteq Keys /\ view.removed \subseteq Keys /\ left \subseteq Uploads
           /\ item \in [Removing -> Uploads \cup {None}]
           /\ seen \in [{App} -> [stored : [Keys -> Uploads \cup {None}], removed : SUBSET Keys]]
           /\ crashes = 0
  BY DistinctAssumption DEF Decided, IInv, Typed, view

\* No two captures choose the same key.
LEMMA OneEach ==
    ASSUME IInv, Decided, LInv, NEW u \in Uploads, NEW v \in Uploads, at[u] = at[v], at[u] # None
    PROVE  u = v
  BY DEF LInv, Named, Decided, OwnNames

\* A step that leaves the export, and takes no item back from those that left but
\* with its mark.
LEMMA LostApart ==
    ASSUME IInv, Decided, LInv, Named', Targets', left' \subseteq Uploads, export' = export,
           removed' \subseteq Keys, pdf' \in [Keys -> Uploads \cup {None}],
           \A u \in Uploads, k \in Keys : Past(u, k) => Past(u, k)',
           \A k \in removed' \ removed : \E u \in left' : Past(u, k)',
           \A u \in left \ left' : \E k \in Keys \ removed' : pdf[k] = u,
           \A k \in Keys :
              \/ pdf'[k] \in {pdf[k], None}
              \/ /\ pdf[k] = None
                 /\ \E u \in Uploads : pdf'[k] = u /\ ~Past(u, k) /\ Past(u, k)',
           \/ view' = view
           \/ view' = Unseen /\ pc'[App] \notin {"previous", "write"},
           pc'[App] \in {"previous", "write"} => pc'[App] = pc[App]
    PROVE  LInv'
  <1> USE LostTyped DEF LInv
  <1>1. StoredPast'
    <2> SUFFICES ASSUME NEW u \in Uploads, NEW k \in Keys, u \in {pdf'[k], export'[k], view'.stored[k]}
                 PROVE  Past(u, k)'
      BY DEF StoredPast
    <2>1. CASE u \in {pdf[k], export[k], view.stored[k]}
      BY <2>1 DEF StoredPast
    <2>2. CASE u = pdf'[k] /\ u # pdf[k]
      BY <2>2
    <2>3. view'.stored[k] \in {view.stored[k], None}
      BY DEF Unseen, NoKeys
    <2>4. u # None
      OBVIOUS
    <2> QED BY <2>1, <2>2, <2>3, <2>4
  <1>2. Marked'
    <2> SUFFICES ASSUME NEW k \in removed' \cap removed
                 PROVE  \E u \in left' : Past(u, k)'
      BY DEF Marked
    <2>1. PICK u \in left : Past(u, k) /\ k \in Keys /\ u \in Uploads
      BY DEF Marked
    <2>2. u \in left'
      <3> SUFFICES ASSUME u \notin left' PROVE FALSE
        OBVIOUS
      <3>1. PICK j \in Keys \ removed' : pdf[j] = u
        BY <2>1
      <3>2. at[u] = j
        BY <2>1, <3>1 DEF StoredPast, Past
      <3> QED BY <2>1, <3>1, <3>2 DEF Past
    <2> QED BY <2>1, <2>2
  <1>3. ASSUME pc'[App] \in {"previous", "write"}, NEW k \in view.removed,
               view.stored[k] = None, export[k] # None
        PROVE  export[k] \in left' /\ pdf'[k] = None
    <2>1. export[k] \in left /\ pdf[k] = None /\ k \in Keys
      BY <1>3 DEF Excused
    <2>2. Past(export[k], k) /\ export[k] \in Uploads
      BY <2>1 DEF StoredPast
    <2>3. export[k] \in left'
      <3> SUFFICES ASSUME export[k] \notin left' PROVE FALSE
        OBVIOUS
      <3>1. PICK j \in Keys : pdf[j] = export[k]
        BY <2>1
      <3>2. at[export[k]] = j
        BY <2>2, <3>1 DEF StoredPast, Past
      <3> QED BY <2>1, <2>2, <3>1, <3>2 DEF Past
    <2>4. pdf'[k] = None
      <3> SUFFICES ASSUME pdf'[k] # None PROVE FALSE
        OBVIOUS
      <3>1. PICK u \in Uploads : ~Past(u, k) /\ Past(u, k)'
        BY <2>1
      <3>2. PICK v \in Uploads : v = export[k] /\ Past(v, k)
        BY <2>2
      <3>3. Past(v, k)'
        BY <2>1, <3>2
      <3>4. \A w, x \in Uploads : at'[w] = at'[x] /\ at'[w] # None => w = x
        BY DEF Named, Decided, OwnNames
      <3>5. u = v
        BY <2>1, <3>1, <3>3, <3>4 DEF Past
      <3> QED BY <3>1, <3>2, <3>5
    <2> QED BY <2>3, <2>4
  <1>4. Excused'
    BY <1>3 DEF Excused
  <1> QED BY <1>1, <1>2, <1>4

\* A step of a process other than the exporter.
LEMMA LostOther ==
    ASSUME IInv, IInv', Decided, LInv, UNCHANGED <<export, seen>>,
           NEW p \in Procs \ {App}, NEW to, pc' = [pc EXCEPT ![p] = to],
           \A q \in Requests \ {p} : at'[q] = at[q],
           \A q \in Removing \ {p} : item'[q] = item[q],
           p \in Uploads =>
              /\ to \notin {"trash", "restore"}
              /\ at'[p] = at[p] \/ \E i \in DOMAIN Candidate[p] : at'[p] = Candidate[p][i]
              /\ \A k \in Keys : Past(p, k) => Past(p, k)',
           p \in Removing =>
              /\ IF p \in Deletes THEN to # "orphan" ELSE to \in {"forget", "unfile", "done"}
              /\ at'[p] \in Keys
              /\ \E u \in Uploads : item'[p] = u /\ Past(u, at'[p]),
           \A k \in removed' \ removed : \E u \in left' : Past(u, k)',
           \A u \in left \ left' : \E k \in Keys \ removed' : pdf[k] = u,
           \A k \in Keys :
              \/ pdf'[k] \in {pdf[k], None}
              \/ /\ pdf[k] = None
                 /\ \E u \in Uploads : pdf'[k] = u /\ ~Past(u, k) /\ Past(u, k)'
    PROVE  LInv'
  <1> USE LostTyped DEF LInv
  <1>1. \A q \in Procs : pc'[q] = IF q = p THEN to ELSE pc[q]
    OBVIOUS
  <1>2. \A u \in Uploads, k \in Keys : Past(u, k) => Past(u, k)'
    BY <1>1 DEF Past
  <1>3. Named'
    BY DEF Named
  <1>4. Targets'
    <2>1. ASSUME NEW q \in Removing, pc'[q] # "idle"
          PROVE  Past(item[q], at[q])'
      <3>1. CASE q # p
        <4>1. Past(item[q], at[q]) /\ item[q] \in Uploads /\ at[q] \in Keys
          BY <1>1, <2>1, <3>1 DEF Targets, IInv, Assigned
        <4>2. Past(item[q], at[q])' = (at'[item[q]] = at[q] /\ pc'[item[q]] \notin Before \cup {"orphan"})
          BY <3>1 DEF Past
        <4> QED BY <1>1, <1>2, <4>1, <4>2 DEF Past
      <3>2. CASE q = p
        <4>1. PICK u \in Uploads : item'[p] = u /\ Past(u, at'[p])
          BY <2>1, <3>2
        <4>2. at'[p] \in Keys /\ u # p
          BY <2>1, <3>2
        <4>3. at'[u] = at[u] /\ pc'[u] = pc[u]
          BY <1>1, <4>2
        <4> QED BY <3>2, <4>1, <4>3 DEF Past
      <3> QED BY <3>1, <3>2
    <2>2. \A d \in Deletes : pc'[d] # "orphan"
      BY <1>1 DEF Targets
    <2>3. \A f \in Forgets : pc'[f] \in {"idle", "forget", "unfile", "done"}
      BY <1>1, DistinctAssumption DEF Targets
    <2>4. \A u \in Uploads : pc'[u] \notin {"trash", "restore"}
      BY <1>1 DEF Targets
    <2> QED BY <2>1, <2>2, <2>3, <2>4 DEF Targets
  <1>5. view' = view /\ pc'[App] = pc[App]
    BY <1>1 DEF view
  <1>6. left' \subseteq Uploads /\ removed' \subseteq Keys /\ pdf' \in [Keys -> Uploads \cup {None}]
    BY DEF IInv, Typed
  <1> QED BY <1>2, <1>3, <1>4, <1>5, <1>6, LostApart

LEMMA CaptureStepLost ==
    ASSUME IInv, IInv', Decided, LInv, NEW u \in Uploads, CaptureStep(u)
    PROVE  LInv'
  <1> USE LostTyped DEF Goto, disk, locks, local
  <1>a. u \in Procs \ {App} /\ u \notin Removing
    OBVIOUS
  <1>1. ASSUME NEW to, to \notin {"trash", "restore"}, pc' = [pc EXCEPT ![u] = to],
               pc[u] \in Before \cup {"orphan"} \/ to \notin Before \cup {"orphan"},
               UNCHANGED <<pdf, export, at, item, seen, left>>, removed' \subseteq removed
        PROVE  LInv'
    <2>1. \A k \in Keys : Past(u, k) => Past(u, k)'
      BY <1>1 DEF Past
    <2> QED BY <1>a, <1>1, <2>1, LostOther
  <1>2. CASE ReadHeld(u)
    BY <1>1, <1>2 DEF ReadHeld, Before
  <1>3. CASE FirstLook(u)
    BY <1>1, <1>3 DEF FirstLook, Before
  <1>4. CASE Place(u)
    <2>1. PICK to \in {"stored", "done", "commit"} : pc' = [pc EXCEPT ![u] = to]
      BY <1>4 DEF Place
    <2>2. /\ \A q \in Requests \ {u} : at'[q] = at[q]
          /\ at'[u] = at[u] \/ \E i \in DOMAIN Candidate[u] : at'[u] = Candidate[u][i]
      BY <1>4 DEF Place, FreeCandidates
    <2>3. pc[u] = "place" /\ UNCHANGED <<pdf, removed, export, item, seen, left>>
      BY <1>4 DEF Place
    <2>4. \A k \in Keys : ~Past(u, k)
      BY <2>3 DEF Past, Before
    <2> QED BY <1>a, <2>1, <2>2, <2>3, <2>4, LostOther
  <1>5. CASE Verify(u)
    <2>1. PICK to \in {"done", "claim"} : pc' = [pc EXCEPT ![u] = to]
      BY <1>5 DEF Verify
    <2>2. UNCHANGED <<pdf, removed, export, item, at, seen, left>>
      BY <1>5 DEF Verify
    <2> QED BY <1>1, <2>1, <2>2 DEF Before
  <1>6. CASE Claim(u)
    <2>1. PICK to \in {"unfile", "stored"} : pc' = [pc EXCEPT ![u] = to]
      BY <1>6 DEF Claim
    <2>2. removed' \subseteq removed /\ UNCHANGED <<pdf, export, item, at, seen, left>>
      BY <1>6 DEF Claim
    <2> QED BY <1>1, <2>1, <2>2 DEF Before
  <1>7. CASE Unfile(u)
    BY <1>1, <1>7 DEF Unfile, Before
  <1>8. CASE Stored(u)
    BY <1>1, <1>8 DEF Stored, Before
  <1>9. ASSUME NEW to \in {"verify", "done"}, pc' = [pc EXCEPT ![u] = to], pc[u] \in {"commit", "orphan"},
               UNCHANGED <<removed, export, at, item, seen, left>>,
               \/ pdf[at[u]] = None /\ pdf' = [pdf EXCEPT ![at[u]] = u]
               \/ pdf' = pdf
        PROVE  LInv'
    <2>1. at[u] \in Keys
      BY <1>9 DEF IInv, Assigned
    <2>2. ~Past(u, at[u]) /\ \A k \in Keys : ~Past(u, k)
      BY <1>9 DEF Past, Before
    <2>3. pc'[u] = to
      BY <1>9
    <2>4. \A k \in Keys : k = at[u] => Past(u, k)'
      BY <1>9, <2>3 DEF Past, Before
    <2>5. \A k \in Keys :
             \/ pdf'[k] \in {pdf[k], None}
             \/ pdf[k] = None /\ pdf'[k] = u /\ k = at[u]
      BY <1>9, <2>1
    <2>6. \A k \in Keys :
             \/ pdf'[k] \in {pdf[k], None}
             \/ /\ pdf[k] = None
                /\ \E v \in Uploads : pdf'[k] = v /\ ~Past(v, k) /\ Past(v, k)'
      BY <2>2, <2>4, <2>5
    <2> QED BY <1>a, <1>9, <2>2, <2>6, LostOther
  <1>10. CASE Commit(u)
    BY <1>9, <1>10 DEF Commit, Vacant
  <1>11. CASE OrphanCommit(u)
    BY <1>9, <1>11 DEF OrphanCommit, Vacant
  <1> QED BY <1>2, <1>3, <1>4, <1>5, <1>6, <1>7, <1>8, <1>10, <1>11 DEF CaptureStep

LEMMA DeleteStepLost ==
    ASSUME IInv, IInv', Decided, LInv, NEW d \in Deletes, DeleteStep(d)
    PROVE  LInv'
  <1> USE LostTyped DEF Goto, disk, locks, local, Finish
  <1>a. d \in Procs \ {App} /\ d \in Removing /\ d \notin Uploads
    OBVIOUS
  <1>1. ASSUME pc[d] # "idle"
        PROVE  /\ at[d] \in Keys /\ item[d] \in Uploads /\ Past(item[d], at[d])
    BY <1>1 DEF LInv, Targets, IInv, Assigned
  <1>2. ASSUME pc[d] # "idle", NEW to, to # "orphan", pc' = [pc EXCEPT ![d] = to],
               UNCHANGED <<export, seen, at, item>>,
               \A k \in Keys : pdf'[k] \in {pdf[k], None},
               \/ removed' \subseteq removed
               \/ removed' \subseteq removed \cup {at[d]} /\ item[d] \in left',
               \A u \in left \ left' : \E k \in Keys \ removed' : pdf[k] = u
        PROVE  LInv'
    <2>1. Past(item[d], at[d])'
      <3>1. pc'[item[d]] = pc[item[d]]
        BY <1>1, <1>2
      <3> QED BY <1>1, <1>2, <3>1 DEF Past
    <2>2. \A k \in removed' \ removed : k = at'[d] /\ item'[d] \in left'
      BY <1>2
    <2>3. \A k \in removed' \ removed : \E u \in left' : Past(u, k)'
      BY <2>1, <2>2 DEF Past
    <2> QED BY <1>a, <1>1, <1>2, <2>3, LostOther
  <1>3. CASE Begin(d)
    <2>1. PICK k \in Keys : /\ pdf[k] # None
                            /\ at' = [at EXCEPT ![d] = k] /\ item' = [item EXCEPT ![d] = pdf[k]]
      BY <1>3 DEF Begin, Shown
    <2>2. Past(pdf[k], k) /\ pdf[k] \in Uploads
      BY <2>1 DEF LInv, StoredPast
    <2>3. item'[d] = pdf[k] /\ at'[d] = k
      BY <2>1
    <2>4. /\ pc' = [pc EXCEPT ![d] = "record"] /\ UNCHANGED <<pdf, removed, export, seen, left>>
          /\ \A q \in Requests \ {d} : at'[q] = at[q]
          /\ \A q \in Removing \ {d} : item'[q] = item[q]
      BY <1>3, <2>1 DEF Begin
    <2> QED BY <1>a, <2>2, <2>3, <2>4, LostOther
  <1>4. CASE Record(d)
    <2>1. /\ pc[d] # "idle" /\ pc' = [pc EXCEPT ![d] = "trash"]
          /\ UNCHANGED <<pdf, export, seen, at, item>>
          /\ removed' = removed \cup {at[d]} /\ left' = left \cup {item[d]}
      BY <1>4 DEF Record
    <2> QED BY <1>2, <2>1
  <1>5. CASE Trash(d)
    <2>1. /\ pc[d] # "idle" /\ pc' = [pc EXCEPT ![d] = "drop"]
          /\ UNCHANGED <<removed, export, seen, at, item>>
          /\ left \subseteq left' /\ pdf' = [pdf EXCEPT ![at[d]] = None]
      BY <1>5 DEF Trash
    <2> QED BY <1>2, <2>1
  <1>6. CASE TrashFails(d)
    BY <1>2, <1>6 DEF TrashFails
  <1>7. CASE Withdraw(d)
    <2>1. /\ pc[d] # "idle" /\ pc' = [pc EXCEPT ![d] = "done"]
          /\ UNCHANGED <<pdf, export, seen, at, item>>
          /\ removed' = removed \ {at[d]} /\ left' = left \ {pdf[at[d]]}
      BY <1>7 DEF Withdraw
    <2>2. \A u \in left \ left' : \E k \in Keys \ removed' : pdf[k] = u
      BY <1>1, <2>1
    <2> QED BY <1>2, <2>1, <2>2
  <1>8. CASE Drop(d)
    BY <1>2, <1>8 DEF Drop
  <1>9. ~OrphanTrash(d)
    BY DEF OrphanTrash, LInv, Targets
  <1> QED BY <1>3, <1>4, <1>5, <1>6, <1>7, <1>8, <1>9 DEF DeleteStep

LEMMA ForgetStepLost ==
    ASSUME IInv, IInv', Decided, LInv, NEW f \in Forgets, ForgetStep(f)
    PROVE  LInv'
  <1> USE LostTyped DEF Goto, disk, locks, local
  <1>a. f \in Procs \ {App} /\ f \in Removing \ Deletes /\ f \notin Uploads
    BY DistinctAssumption
  <1>1. CASE Listed(f)
    <2>1. PICK k \in Keys : /\ export[k] # None
                            /\ at' = [at EXCEPT ![f] = k] /\ item' = [item EXCEPT ![f] = export[k]]
      BY <1>1 DEF Listed
    <2>2. Past(export[k], k) /\ export[k] \in Uploads
      BY <2>1 DEF LInv, StoredPast
    <2>3. item'[f] = export[k] /\ at'[f] = k
      BY <2>1
    <2>4. /\ pc' = [pc EXCEPT ![f] = "forget"] /\ UNCHANGED <<pdf, removed, export, seen, left>>
          /\ \A q \in Requests \ {f} : at'[q] = at[q]
          /\ \A q \in Removing \ {f} : item'[q] = item[q]
      BY <1>1, <2>1 DEF Listed
    <2> QED BY <1>a, <2>2, <2>3, <2>4, LostOther
  <1>2. ASSUME pc[f] # "idle", NEW to \in {"unfile", "done"}, pc' = [pc EXCEPT ![f] = to],
               UNCHANGED <<pdf, export, seen, at, item>>,
               \/ UNCHANGED <<removed, left>>
               \/ removed' = removed \cup {at[f]} /\ left' = left \cup {item[f]}
        PROVE  LInv'
    <2>1. at[f] \in Keys /\ item[f] \in Uploads /\ Past(item[f], at[f])
      BY <1>2 DEF LInv, Targets, IInv, Assigned
    <2>2. Past(item[f], at[f])'
      <3>1. pc'[item[f]] = pc[item[f]]
        BY <1>2, <2>1
      <3> QED BY <1>2, <2>1, <3>1 DEF Past
    <2>3. \A k \in removed' \ removed : \E u \in left' : Past(u, k)'
      BY <1>2, <2>2 DEF Past
    <2> QED BY <1>a, <1>2, <2>1, <2>3, LostOther
  <1>3. CASE Forget(f)
    <2>1. \E to \in {"done", "unfile"} : pc' = [pc EXCEPT ![f] = to]
      BY <1>3 DEF Forget
    <2>2. /\ pc[f] # "idle" /\ UNCHANGED <<pdf, export, seen, at, item>>
          /\ \/ UNCHANGED <<removed, left>>
             \/ removed' = removed \cup {at[f]} /\ left' = left \cup {item[f]}
      BY <1>3 DEF Forget
    <2> QED BY <1>2, <2>1, <2>2
  <1>4. CASE ForgetUnfile(f)
    BY <1>2, <1>4 DEF ForgetUnfile
  <1> QED BY <1>1, <1>3, <1>4 DEF ForgetStep

\* The other requests, losses, and clients that disconnect.
LEMMA OtherStepLost ==
    ASSUME IInv, IInv', Decided, LInv,
           \/ \E n \in Filings : FileItem(n)
           \/ Environment
    PROVE  LInv'
  <1> USE LostTyped DEF Goto, disk, locks, local, env
  <1>1. ASSUME NEW n \in Filings, FileItem(n) PROVE LInv'
    <2>1. n \in Procs \ {App} /\ n \notin Removing /\ n \notin Uploads
      BY DistinctAssumption
    <2> QED BY <1>1, <2>1, LostOther DEF FileItem
  <1>2. ASSUME NEW p \in Cancellable, Cancel(p) PROVE LInv'
    <2>1. p \in Procs \ {App} /\ p \notin Deletes
      BY KindAssumption DEF Decided
    <2>2. left' = left
      <3>1. Undecided({p} \cap Deletes) = {}
        BY <2>1 DEF Undecided
      <3> QED BY <1>2, <3>1 DEF Cancel
    <2>3. /\ pc[p] # "idle" /\ UNCHANGED <<pdf, removed, export, seen, item, at>>
          /\ \/ pc' = [pc EXCEPT ![p] = "done"]
             \/ pc' = [pc EXCEPT ![p] = "orphan"] /\ pc[p] \in {"commit", "trash", "restore"}
      BY <1>2 DEF Cancel, Running
    <2>4. CASE p \in Forgets
      <3>1. pc' = [pc EXCEPT ![p] = "done"]
        BY <2>3, <2>4 DEF LInv, Targets
      <3>2. at[p] \in Keys /\ item[p] \in Uploads /\ Past(item[p], at[p])
        BY <2>3, <2>4 DEF LInv, Targets, IInv, Assigned
      <3> QED BY <2>1, <2>2, <2>3, <2>4, <3>1, <3>2, LostOther
    <2>5. CASE p \notin Forgets
      <3>1. p \in Uploads => \A k \in Keys : Past(p, k) => Past(p, k)'
        BY <2>1, <2>3 DEF LInv, Targets, Past, Before
      <3>2. PICK to \in {"done", "orphan"} : pc' = [pc EXCEPT ![p] = to]
        BY <2>3
      <3>3. p \notin Removing /\ at' = at /\ item' = item /\ UNCHANGED <<pdf, removed, export, seen>>
        BY <2>1, <2>3, <2>5
      <3>4. /\ at'[p] = at[p] /\ \A k \in Keys : pdf'[k] = pdf[k]
            /\ removed' \ removed = {} /\ left \ left' = {}
        BY <2>2, <3>3
      <3> QED BY <2>1, <3>1, <3>2, <3>3, <3>4, LostOther
    <2> QED BY <2>4, <2>5
  <1>3. ASSUME NEW k \in Keys, Lose(k) PROVE LInv'
    <2>1. /\ \A j \in Keys : pdf'[j] \in {pdf[j], None}
          /\ UNCHANGED <<pc, removed, export, seen, item, at, left>>
      BY <1>3 DEF Lose
    <2>2. Named' /\ Targets' /\ view' = view /\ pc'[App] = pc[App]
      BY <2>1 DEF LInv, Named, Targets, Past, view
    <2>3. \A u \in Uploads, j \in Keys : Past(u, j) => Past(u, j)'
      BY <2>1 DEF Past
    <2>4. left' \subseteq Uploads /\ removed' \subseteq Keys /\ pdf' \in [Keys -> Uploads \cup {None}]
      BY DEF IInv, Typed
    <2> QED BY <2>1, <2>2, <2>3, <2>4, LostApart
  <1>4. ~Crash
    BY DEF Crash, Decided
  <1> QED BY <1>1, <1>2, <1>3, <1>4 DEF Environment

LEMMA ExportStepLost ==
    ASSUME IInv, IInv', Decided, LInv, ExportStep(App)
    PROVE  LInv'
  <1> USE LostTyped DEF Goto, disk, locks, local, Ended
  <1>1. ASSUME pc' = [pc EXCEPT ![App] = pc'[App]], UNCHANGED <<pdf, at, item, left>>
        PROVE  /\ Named' /\ Targets'
               /\ \A u \in Uploads, k \in Keys : Past(u, k) <=> Past(u, k)'
    <2>1. \A q \in Requests : pc'[q] = pc[q]
      BY <1>1
    <2>2. \A u \in Uploads, k \in Keys : Past(u, k) <=> Past(u, k)'
      BY <1>1, <2>1 DEF Past
    <2>3. Targets'
      BY <1>1, <2>1 DEF LInv, Targets, Past, IInv, Assigned
    <2> QED BY <1>1, <2>2, <2>3 DEF LInv, Named
  <1>2. ASSUME pc' = [pc EXCEPT ![App] = pc'[App]], UNCHANGED <<pdf, at, item, left, export>>,
               removed' \subseteq removed,
               \/ view' = view
               \/ view' = Unseen /\ pc'[App] \notin {"previous", "write"},
               pc'[App] \in {"previous", "write"} => pc'[App] = pc[App]
        PROVE  LInv'
    <2>1. left' \subseteq Uploads /\ removed' \subseteq Keys /\ pdf' \in [Keys -> Uploads \cup {None}]
      BY DEF IInv, Typed
    <2>2. removed' \ removed = {} /\ left \ left' = {}
      BY <1>2
    <2> QED BY <1>1, <1>2, <2>1, <2>2, LostApart
  <1>3. CASE Wake(App)
    BY <1>2, <1>3 DEF Wake, view
  <1>4. CASE Snapshot(App)
    <2>1. /\ pc' = [pc EXCEPT ![App] = pc'[App]] /\ pc'[App] = "previous"
          /\ view' = [stored |-> pdf, removed |-> removed]
          /\ UNCHANGED <<pdf, removed, export, at, item, left>>
      BY <1>4 DEF Snapshot, view
    <2>2. StoredPast' /\ Marked'
      BY <1>1, <2>1 DEF LInv, StoredPast, Marked
    <2>3. ASSUME NEW k \in removed, pdf[k] = None, export[k] # None
          PROVE  export[k] \in left
      <3>1. PICK u \in left : Past(u, k)
        BY DEF LInv, Marked
      <3>2. PICK v \in Uploads : v = export[k] /\ Past(v, k)
        BY <2>3 DEF LInv, StoredPast
      <3>3. u = v
        BY <3>1, <3>2, <2>3, OneEach DEF Past
      <3> QED BY <3>1, <3>2, <3>3
    <2>4. Excused'
      BY <2>1, <2>3 DEF Excused
    <2> QED BY <1>1, <2>1, <2>2, <2>4 DEF LInv
  <1>5. CASE CheckPrevious(App)
    <2>1. /\ pc[App] = "previous" /\ pc' = [pc EXCEPT ![App] = pc'[App]]
          /\ UNCHANGED <<pdf, removed, export, at, item, left>>
          /\ \/ view' = view /\ pc'[App] = "write" /\ Missing(App) = {}
             \/ view' = Unseen /\ pc'[App] = "wait"
      BY <1>5 DEF CheckPrevious, view
    <2>2. CASE view' = Unseen /\ pc'[App] = "wait"
      BY <1>2, <2>1, <2>2
    <2>3. CASE view' = view /\ pc'[App] = "write" /\ Missing(App) = {}
      <3>1. \A k \in Keys : view.stored[k] = None /\ export[k] # None => k \in view.removed
        BY <2>3 DEF Missing, view
      <3>2. Excused'
        BY <2>1, <2>3, <3>1 DEF LInv, Excused
      <3>3. StoredPast' /\ Marked'
        BY <1>1, <2>1, <2>3 DEF LInv, StoredPast, Marked
      <3> QED BY <1>1, <2>1, <3>2, <3>3 DEF LInv
    <2> QED BY <2>1, <2>2, <2>3
  <1>6. CASE Write(App)
    <2>1. /\ pc' = [pc EXCEPT ![App] = pc'[App]] /\ pc'[App] \in {"wait", "prune"}
          /\ UNCHANGED <<pdf, removed, at, item, left>>
          /\ export' = view.stored /\ view' \in {view, Unseen}
      BY <1>6 DEF Write, view
    <2>2. Excused'
      BY <2>1 DEF Excused
    <2>3. Marked'
      BY <1>1, <2>1 DEF LInv, Marked
    <2>4. \A k \in Keys : view'.stored[k] \in {view.stored[k], None}
      BY <2>1 DEF Unseen, NoKeys
    <2>5. StoredPast'
      BY <1>1, <2>1, <2>4 DEF LInv, StoredPast
    <2> QED BY <1>1, <2>1, <2>2, <2>3, <2>5 DEF LInv
  <1>7. CASE Prune(App)
    BY <1>2, <1>7 DEF Prune, view
  <1>8. CASE PruneFiling(App)
    BY <1>2, <1>8 DEF PruneFiling, view
  <1> QED BY <1>3, <1>4, <1>5, <1>6, <1>7, <1>8 DEF ExportStep

\* The only step that changes the export writes what the app's exporter saw.
LEMMA ExportChanges ==
    ASSUME IInv, Decided, LInv, [Next]_vars, NEW k \in Keys,
           export[k] \notin {None, pdf[k]} \cup left
    PROVE  export'[k] = export[k]
  <1> USE LostTyped
  <1>1. CASE Write(App)
    <2>1. pc[App] = "write" /\ export' = view.stored
      BY <1>1 DEF Write, Goto, view, Ended
    <2>2. view.stored[k] # None
      BY <2>1 DEF LInv, Excused
    <2>3. PICK u \in Uploads, v \in Uploads :
             u = export[k] /\ v = view.stored[k] /\ Past(u, k) /\ Past(v, k)
      BY <2>2 DEF LInv, StoredPast
    <2>4. u = v
      BY <2>3, OneEach DEF Past
    <2> QED BY <2>1, <2>3, <2>4
  <1>2. CASE ~Write(App)
    <2>1. CASE \E x \in Exporters : ExportStep(x)
      BY <1>2, <2>1
      DEF ExportStep, Wake, Snapshot, CheckPrevious, Prune, PruneFiling, disk
    <2>2. CASE \E u \in Uploads : CaptureStep(u)
      BY <2>2 DEF CaptureStep, ReadHeld, FirstLook, Place, Commit, Verify, Claim, Unfile,
                  Stored, OrphanCommit, disk
    <2>3. CASE \E d \in Deletes : DeleteStep(d)
      BY <2>3 DEF DeleteStep, Begin, Record, Trash, TrashFails, Withdraw, Drop, OrphanTrash, disk
    <2>4. CASE \/ \E f \in Forgets : ForgetStep(f)
               \/ \E r \in Rebuilds : RebuildStep(r)
      BY <2>4 DEF Decided, ForgetStep, Listed, Forget, ForgetUnfile, disk
    <2>5. CASE \/ \E n \in Filings : FileItem(n)
               \/ Environment \/ vars' = vars
      BY <2>5 DEF FileItem, Environment, Lose, Crash, Cancel, disk, vars
    <2> QED BY <2>1, <2>2, <2>3, <2>4, <2>5 DEF Next
  <1> QED BY <1>1, <1>2

\* An item the export lists and that went missing stays listed, over any number of
\* captures, deletes, forgets, losses and clients that disconnect from a capture: the
\* app's exporter refuses rather than to drop it (the check of the previous index in
\* export_index), and drops an item only when it was removed on purpose and is gone.
THEOREM ExportKeepsLostHolds ==
    ASSUME OwnNames, Rebuilds = {}, CliExports = {}, MaxCrashes = 0,
           Cancellable \cap Deletes = {}
    PROVE  Spec => ExportKeepsLost
  <1>a. Decided
    BY DEF Decided
  <1>1. Init => LInv
    BY <1>a, DistinctAssumption
    DEF Decided, Init, LInv, Named, StoredPast, Targets, Marked, Excused, view, Unseen, NoKeys
  <1>2. IInv /\ LInv /\ [Next]_vars => LInv'
    <2> SUFFICES ASSUME IInv, LInv, [Next]_vars
                 PROVE  LInv'
      OBVIOUS
    <2>1. IInv'
      BY NextIInv
    <2>2. ASSUME NEW x \in Exporters, ExportStep(x)
          PROVE  LInv'
      BY <1>a, <2>1, <2>2, ExportStepLost DEF Decided
    <2>3. CASE vars' = vars
      BY <2>3 DEF vars, disk, local, LInv, Named, StoredPast, Targets, Marked, Excused, Past, view
    <2> QED BY <1>a, <2>1, <2>2, <2>3, CaptureStepLost, DeleteStepLost, ForgetStepLost,
               OtherStepLost DEF Next, Decided
  <1>3. IInv /\ LInv /\ [Next]_vars =>
          [\A k \in Keys : export[k] \notin {None, pdf[k]} \cup left
              => export'[k] = export[k]]_vars
    BY <1>a, ExportChanges
  <1> QED BY InitIInv, NextIInv, <1>1, <1>2, <1>3, PTL DEF Spec, ExportKeepsLost
=============================================================================
