----------------------------- MODULE Documents -----------------------------
(* The reader's tabs: the PDFs the reader holds, which of them EmbedPDF's       *)
(* document manager holds, shows and has laid out, which sleep behind a         *)
(* bookmark, and what is still under way: loads of the stored bytes, and closes *)
(* and sleeps that wait for a PDF's saves.  A handler runs from one await to    *)
(* the next as one step.  `host` is what the reader's callbacks share, with     *)
(* EmbedPDF's own state beside it.                                              *)
EXTENDS Integers, FiniteSets, SequencesExt

CONSTANTS
    Keys,           \* item keys, each at most one tab
    None,           \* no tab
    Pages,          \* the pages a PDF can be at, 1 among them
    AWAKE_READERS,  \* how many PDFs stay open: the ones shown last
    MaxUnderWay,    \* bound: loads, saves, closes and sleeps under way, and failed tabs
    MaxOpening,     \* bound: loads that EmbedPDF took in, under way
    MaxTouched,     \* bound: PDFs edited, or away from their first page, at once
    LateFailures,   \* whether a load may fail once the reader waits for another
    SlowCloses,     \* whether a close may outlast the opening it was asked of
    StrayDocuments          \* whether a tab may go while EmbedPDF keeps the PDF it could not open

ASSUME ReaderAssumption ==
    /\ IsFiniteSet(Keys) /\ None \notin Keys
    /\ Pages \subseteq Nat \ {0} /\ 1 \in Pages
    /\ {AWAKE_READERS, MaxUnderWay, MaxOpening, MaxTouched} \subseteq Nat
    /\ {LateFailures, SlowCloses, StrayDocuments} \subseteq BOOLEAN

VARIABLES
    host,     \* the state a handler reads and writes, see TypeOK
    dialog,   \* the key whose close waits for the user's Close Without Saving
    spared    \* keys past AWAKE_READERS that could not settle since they were

vars == <<host, dialog, spared>>

NotHeld == [status |-> "none", at |-> 0, index |-> -1]
Awake(s) == {k \in Keys : s.held[k].status # "none"}
Asleep(s) == ToSet(s.asleep)
NoMark == [at |-> 0, index |-> -1]
IsOpen(s, k) == k # None /\ s.held[k].status = "open"

\* The elements of seq that S has, in their order.
Kept(seq, S) ==
    LET kept[n \in 0..Len(seq)] ==
            IF n = 0 THEN <<>>
            ELSE IF seq[n] \in S THEN Append(kept[n - 1], seq[n]) ELSE kept[n - 1]
    IN  kept[Len(seq)]

Without(seq, k) == Kept(seq, Keys \ {k})

----------------------------------------------------------------------------
(* What the tab row shows. *)

\* The sleeping tabs by the index their bookmarks name, as they fell asleep where
\* it is the same.
Sorted(s) ==
    LET upTo[n \in 0..Cardinality(Keys)] ==
            IF n = 0 THEN <<>>
            ELSE upTo[n - 1] \o Kept(s.asleep, {k \in Keys : s.marks[k].index = n - 1})
    IN  upTo[Cardinality(Keys)]

\* The keys of the tab row: EmbedPDF's order, then what it does not hold yet, and
\* each sleeping tab put in at its index.
Tabs(s) ==
    LET row[n \in 0..Len(Sorted(s))] ==
            IF n = 0 THEN Kept(s.order, Awake(s)) \o s.row
            ELSE LET tabs == row[n - 1]
                     k == Sorted(s)[n]
                     i == s.marks[k].index
                 IN  InsertAt(tabs, 1 + (IF i < Len(tabs) THEN i ELSE Len(tabs)), k)
    IN  row[Len(Sorted(s))]

IndexOf(s, k) == SelectInSeq(Tabs(s), LAMBDA j : j = k) - 1

\* The tab that takes k's place: the one after it, or the one before the last.
Neighbour(s, k) ==
    LET others == Without(Tabs(s), k)
        i == IndexOf(s, k) + 1
    IN  IF others = <<>> THEN None
        ELSE others[IF i < Len(others) THEN i ELSE Len(others)]

----------------------------------------------------------------------------
(* EmbedPDF's active document. *)

\* What waits for k as it is held now; once that is gone, the wait is outdated.
Task(k, by) == [key |-> k, by |-> by, current |-> TRUE]
Outdate(tasks, k) == {IF t.key = k THEN [t EXCEPT !.current = FALSE] ELSE t : t \in tasks}

\* The PDFs past the AWAKE_READERS shown last.
Past(s) == {s.recent[i] : i \in (AWAKE_READERS + 1)..Len(s.recent)}

\* Every one of them starts to settle, to sleep.
SleepDrowsy(s) ==
    [s EXCEPT !.settling = s.settling \cup
         {Task(k, "drowsy") : k \in {j \in Past(s) : IsOpen(s, j)}}]

\* k, now the PDF shown, takes the focus unless the reader loads another to show.
Activated(s, k) ==
    LET loading == s.focus # None /\ s.held[s.focus].status = "loading"
    IN  [s EXCEPT !.focus = IF loading THEN s.focus ELSE k,
                  !.recent = <<k>> \o Without(s.recent, k)]

\* setActiveDocument and the event it raises.
SetActive(s, k) ==
    IF s.active = k THEN s ELSE SleepDrowsy(Activated([s EXCEPT !.active = k], k))

\* closeDocument: a PDF that was active leaves the activity to any other one.
CloseDocument(s, k) ==
    LET t == [s EXCEPT !.order = Without(s.order, k), !.at[k] = 0]
    IN  IF s.active # k THEN {t}
        ELSE IF t.order = <<>> THEN {[t EXCEPT !.active = None]}
        ELSE {SetActive(t, j) : j \in ToSet(t.order)}

----------------------------------------------------------------------------
(* Showing, opening and removing a tab. *)

\* A bug it could have: the tab row follows, EmbedPDF does not.
ActivateTabOnly(s, k) == [s EXCEPT !.focus = k]

\* Shows k, which the reader holds.
Activate(s, k) ==
    LET t == [s EXCEPT !.focus = k] IN IF IsOpen(t, k) THEN SetActive(t, k) ELSE t

\* Opens k, where its bookmark says, or shows it when the reader holds it.
Open(s, k) ==
    IF k \in Awake(s) THEN Activate(s, k)
    ELSE [s EXCEPT !.asleep = Without(s.asleep, k), !.marks[k] = NoMark,
                   !.held[k] = [status |-> "loading", at |-> s.marks[k].at, index |-> s.marks[k].index],
                   !.row = IF k \in ToSet(s.order) THEN s.row ELSE Append(s.row, k), !.focus = k,
                   !.loads = s.loads \cup {[key |-> k, taken |-> FALSE, index |-> -1, current |-> TRUE]}]

\* EmbedPDF closes k's PDF, and shows next first when next is open.
CloseShown(s, k, next) ==
    CloseDocument(IF IsOpen(s, next) THEN SetActive(s, next) ELSE s, k)

\* next, about to be shown, wakes when it sleeps.
WakeSleeping(s, next) == IF next \in Asleep(s) THEN Open(s, next) ELSE s

\* k leaves the reader, for good or, with a bookmark, to sleep in the tab row.
RemoveTab(s, k, mark) ==
    LET next == IF s.focus = k THEN Neighbour(s, k) ELSE s.focus
        t == [s EXCEPT !.held[k] = NotHeld, !.row = Without(s.row, k),
                       !.laidOut = s.laidOut \ {k}, !.parked[k] = 0,
                       !.recent = Without(s.recent, k),
                       !.work[k] = "saved", !.focus = next, !.marks[k] = mark,
                       !.loads = Outdate(s.loads, k), !.settling = Outdate(s.settling, k),
                       !.asleep = IF mark.at = 0 THEN Without(s.asleep, k)
                                  ELSE Append(Without(s.asleep, k), k)]
    IN  {WakeSleeping(u, next) : u \in IF IsOpen(s, k) THEN CloseShown(t, k, next) ELSE {t}}

\* A bug it could have: only the viewport is asked.
PlaceOfViewport(s, k) == IF s.active = k /\ s.at[k] # 0 THEN s.at[k] ELSE 1

\* Where k is: the page its viewport shows, which only the active PDF has, or the
\* one it was at when it was last active; page 1 for one not laid out.
PlaceOf(s, k) ==
    IF s.active = k \/ s.parked[k] = 0
    THEN (IF s.active = k /\ s.at[k] # 0 THEN s.at[k] ELSE 1)
    ELSE s.parked[k]

Bookmark(s, k) == [at |-> PlaceOf(s, k), index |-> IndexOf(s, k)]

\* The bounds on what is under way: loads, waits for saves, the saves, failed tabs,
\* and the close that asks.
Bounded(s, asks) ==
    /\ Cardinality({l \in s.loads : l.taken}) <= MaxOpening
    /\ Cardinality(s.loads) + Cardinality(s.settling)
          + Cardinality({k \in Keys : s.work[k] = "unsaved" \/ s.held[k].status = "failed"})
          + (IF asks = None THEN 0 ELSE 1) <= MaxUnderWay

\* A step ends: every PDF that no longer is past AWAKE_READERS may settle again.
Become(s) ==
    host' = s /\ Bounded(s, dialog) /\ spared' = spared \cap Past(s)

----------------------------------------------------------------------------
(* What the user does in the tab row. *)

\* The dialog of a close is modal; only the bucket's events go on behind it.
Free == dialog = None

\* A click in the library, or the bucket's open-reader event, opens k in a tab.
OpenReader(k) ==
    Become(Open(host, k)) /\ UNCHANGED dialog

\* A click on a tab, or Ctrl+Tab: a sleeping tab wakes.
Show(s, k) ==
    IF k \in Asleep(s) THEN Open(s, k) ELSE Activate(s, k)

ShowTab(k) ==
    /\ Free /\ k \in Awake(host) \cup Asleep(host)
    /\ Become(Show(host, k)) /\ UNCHANGED dialog

\* EmbedPDF keeps no PDF without k's tab, but under StrayDocuments.
Removable(k) == StrayDocuments \/ IsOpen(host, k) \/ k \notin ToSet(host.order)

\* A close: a sleeping tab goes, one that holds no open PDF goes, an open one
\* settles first.
Close(k) ==
    /\ Free /\ k \in Awake(host) \cup Asleep(host)
    /\ UNCHANGED dialog
    /\ \/ /\ k \in Asleep(host)
          /\ Become([host EXCEPT !.asleep = Without(host.asleep, k), !.marks[k] = NoMark])
       \/ /\ k \notin Asleep(host) /\ ~IsOpen(host, k) /\ Removable(k)
          /\ \E s \in RemoveTab(host, k, NoMark) : Become(s)
       \/ /\ IsOpen(host, k)
          /\ Become([host EXCEPT !.settling = host.settling \cup {Task(k, "close")}])

Sleep(k) ==
    /\ Free /\ IsOpen(host, k)
    /\ Become([host EXCEPT !.settling = host.settling \cup {Task(k, "sleep")}])
    /\ UNCHANGED dialog

\* Close Without Saving.
Discard(k) ==
    /\ dialog = k /\ dialog' = None /\ Removable(k)
    /\ \E s \in RemoveTab(host, k, NoMark) : Become(s)

CancelDialog == dialog # None /\ dialog' = None /\ UNCHANGED <<host, spared>>

\* Discard my copy, offered while a save was refused: the stored PDF opens again
\* where the user's copy was.
Reload(k) ==
    /\ Free /\ host.focus = k /\ IsOpen(host, k) /\ host.work[k] = "refused"
    /\ \E s \in RemoveTab([host EXCEPT !.focus = None], k, Bookmark(host, k)) : Become(Open(s, k))
    /\ UNCHANGED dialog

----------------------------------------------------------------------------
(* Loads: the library and the stored bytes, EmbedPDF taking them in, and its task *)
(* that opens them; each ends, or fails, in a step of its own.                    *)

Over(s, l) == [s EXCEPT !.loads = s.loads \ {l}]
Renewed(s, l, m) == (s.loads \ {l}) \cup {m}

\* A bug it could have: the load does not ask whether it still is waited for.
LoadedLate(l) ==
    LET taken == [host EXCEPT !.loads = Renewed(host, l, [l EXCEPT !.taken = TRUE]), !.held[l.key].status = "open",
                              !.order = Append(Without(@, l.key), l.key)]
    IN  /\ ~l.taken
        /\ Become(IF host.focus = l.key THEN SetActive(taken, l.key) ELSE taken) /\ UNCHANGED dialog

\* The bytes are loaded: the tab holds them open, and EmbedPDF takes them in,
\* unless the reader stopped waiting for this load.
Loaded(l) ==
    LET k == l.key
        opening == [l EXCEPT !.taken = TRUE, !.index = host.held[k].index]
        taken == [host EXCEPT !.loads = Renewed(host, l, opening), !.row = Without(host.row, k),
                              !.held[k].status = "open", !.held[k].index = -1,
                              !.order = Append(Without(host.order, k), k)]
    IN  /\ ~l.taken
        /\ Become(IF ~l.current THEN Over(host, l)
                  ELSE IF host.focus = k THEN SetActive(taken, k) ELSE taken)
        /\ UNCHANGED dialog

\* EmbedPDF took the bytes in: its document of k moves to its place among the tabs.
Placed(l) ==
    LET k == l.key
        before == {j \in ToSet(host.order) : IndexOf(host, j) < l.index}
        going == [host EXCEPT !.loads = Renewed(host, l, [l EXCEPT !.index = -1])]
    IN  /\ l.taken /\ l.index # -1
        /\ Become(IF k \notin ToSet(host.order) THEN going
                  ELSE [going EXCEPT !.order =
                           InsertAt(Without(host.order, k), Cardinality(before \ {k}) + 1, k)])
        /\ UNCHANGED dialog

\* EmbedPDF opened them.
Opened(l) == l.taken /\ l.index = -1 /\ Become(Over(host, l)) /\ UNCHANGED dialog

\* A load failed: the tab says so, whatever it holds by now.  EmbedPDF is not asked to
\* close what it took in, and keeps it.
LoadFailed(l) ==
    LET k == l.key
        gone == Over(host, l)
    IN  /\ LateFailures \/ l.current
        /\ Become(IF host.held[k].status = "none" THEN gone
                  ELSE [gone EXCEPT !.held[k] = [NotHeld EXCEPT !.status = "failed"],
                                    !.loads = Outdate(gone.loads, k), !.settling = Outdate(host.settling, k),
                                    !.work[k] = "saved"])
        /\ UNCHANGED dialog

----------------------------------------------------------------------------
(* EmbedPDF lays the active PDF out; the user reads and annotates it. *)

\* The bound on what the user has in hand.
Touched(k) ==
    host.work[k] # "saved" \/ \E p \in {host.at[k], host.held[k].at, host.marks[k].at} : p > 1
MayTouch(k) == Cardinality({j \in Keys \ {k} : Touched(j)}) < MaxTouched

\* EmbedPDF lays out a PDF it opened.  The first layout goes where the bookmark says,
\* or to the page last viewed, here the first.
LaidOut(k) ==
    LET at == IF host.held[k].at # 0 THEN host.held[k].at ELSE 1
    IN  /\ k = host.active /\ IsOpen(host, k) /\ k \notin host.laidOut
        /\ ~\E l \in host.loads : l.key = k /\ l.current
        /\ Become([host EXCEPT !.laidOut = host.laidOut \cup {k},
                               !.held[k].at = 0, !.at[k] = at, !.parked[k] = at])
        /\ UNCHANGED dialog

InHand(k) == Free /\ k = host.active /\ k = host.focus /\ k \in host.laidOut

Scroll(k, p) ==
    /\ InHand(k) /\ (p = 1 \/ MayTouch(k))
    /\ Become([host EXCEPT !.at[k] = p, !.parked[k] = p]) /\ UNCHANGED dialog

Edit(k) ==
    /\ InHand(k) /\ MayTouch(k)
    /\ Become([host EXCEPT !.work[k] = "unsaved"]) /\ UNCHANGED dialog

\* A save of k is stored, or refused: the stored PDF changed, or the bucket failed.
Saved(k) ==
    /\ host.work[k] = "unsaved"
    /\ \E w \in {"saved", "refused"} : Become([host EXCEPT !.work[k] = w])
    /\ UNCHANGED dialog

\* Save my copy over it.
KeepMine(k) ==
    /\ Free /\ host.focus = k /\ host.work[k] = "refused"
    /\ Become([host EXCEPT !.work[k] = "unsaved"]) /\ UNCHANGED dialog

----------------------------------------------------------------------------
(* A close or a sleep whose wait for the saves is over. *)

Done(t) == [host EXCEPT !.settling = host.settling \ {t}]

\* The closing goes on for any PDF the tab holds by then.
Closed(t) ==
    IF t.key \in Awake(host) THEN RemoveTab(Done(t), t.key, NoMark) ELSE {Done(t)}

\* A bug it could have: the sleep goes on for whatever the tab holds by then.
SleptAnyway(t) ==
    IF t.key \in Awake(host) THEN RemoveTab(Done(t), t.key, Bookmark(host, t.key)) ELSE {Done(t)}

\* The sleep goes on for the storage that settled, and one of its own accord only
\* while the PDF still is past AWAKE_READERS.
Slept(t) ==
    IF t.current /\ (t.by = "drowsy" => t.key \in Past(host))
    THEN RemoveTab(Done(t), t.key, Bookmark(host, t.key)) ELSE {Done(t)}

Settled(t) ==
    /\ t.current => host.work[t.key] = "saved"
    /\ t.by = "close" => Removable(t.key) /\ (SlowCloses \/ t.current \/ t.key \notin Awake(host))
    /\ \E s \in IF t.by = "close" THEN Closed(t) ELSE Slept(t) : Become(s)
    /\ UNCHANGED dialog

\* A save or the report of the reading session failed: a tab the user closed or
\* put to sleep is shown, and the close asks.
NotSettled(t) ==
    LET shown == t.by # "drowsy" /\ t.key \in Awake(host) \cup Asleep(host)
        s == IF shown THEN Show(Done(t), t.key) ELSE Done(t)
    IN  /\ host' = s
        /\ dialog' = IF shown /\ t.by = "close" THEN t.key ELSE dialog
        /\ Bounded(s, dialog')
        /\ spared' = (IF t.current THEN spared \cup {t.key} ELSE spared) \cap Past(s)

----------------------------------------------------------------------------
Init ==
    /\ host = [held |-> [k \in Keys |-> NotHeld], row |-> <<>>,
               marks |-> [k \in Keys |-> NoMark], asleep |-> <<>>,
               recent |-> <<>>, focus |-> None, laidOut |-> {}, parked |-> [k \in Keys |-> 0],
               order |-> <<>>, active |-> None, at |-> [k \in Keys |-> 0],
               work |-> [k \in Keys |-> "saved"],
               loads |-> {}, settling |-> {}]
    /\ dialog = None /\ spared = {}

Next ==
    \/ \E k \in Keys : OpenReader(k) \/ ShowTab(k) \/ Close(k) \/ Sleep(k) \/ Discard(k) \/ Reload(k)
    \/ CancelDialog
    \/ \E l \in host.loads : Loaded(l) \/ Placed(l) \/ Opened(l) \/ LoadFailed(l)
    \/ \E k \in Keys, p \in Pages : Scroll(k, p)
    \/ \E k \in Keys : LaidOut(k) \/ Edit(k) \/ Saved(k) \/ KeepMine(k)
    \/ \E t \in host.settling : Settled(t) \/ NotSettled(t)

Spec == Init /\ [][Next]_vars

----------------------------------------------------------------------------
(* Properties. *)

Indices == -1..(Cardinality(Keys) - 1)
Held == [status : {"none", "loading", "failed", "open"}, at : Pages \cup {0}, index : Indices]
Loadings == [key : Keys, taken : BOOLEAN, index : Indices, current : BOOLEAN]
TypeOK ==
    /\ host.held \in [Keys -> Held]
    /\ host.marks \in [Keys -> [at : Pages \cup {0}, index : Indices]]
    /\ {host.row, host.asleep, host.recent, host.order} \subseteq Seq(Keys)
    /\ {host.focus, host.active, dialog} \subseteq Keys \cup {None}
    /\ host.laidOut \cup spared \subseteq Keys
    /\ host.parked \in [Keys -> Pages \cup {0}] /\ host.at \in [Keys -> Pages \cup {0}]
    /\ host.work \in [Keys -> {"saved", "unsaved", "refused"}]
    /\ host.loads \subseteq Loadings
    /\ host.settling \subseteq [key : Keys, by : {"close", "sleep", "drowsy"}, current : BOOLEAN]

\* The tab the reader shows is an awake one, and while there are tabs one is
\* shown: a tab that goes hands the focus on, waking a sleeping neighbour.
FocusIsAwake ==
    /\ host.focus # None => host.focus \in Awake(host)
    /\ Awake(host) # {} => host.focus # None
    /\ Awake(host) \cap Asleep(host) = {}

\* EmbedPDF holds the PDFs the reader holds open, and besides them only PDFs whose
\* tab says that they failed; what it has laid out is open: laidOut and the commit
\* of an annotation throw on any other.
ManagerHoldsOpen ==
    /\ {k \in Keys : IsOpen(host, k)} \cup ToSet(host.recent) \subseteq ToSet(host.order)
    /\ \A k \in ToSet(host.order) : host.held[k].status \in {"open", "failed"}
    /\ \A k \in host.laidOut : IsOpen(host, k)

\* An open PDF whose tab is shown is the one EmbedPDF shows.
ShowsTheFocus == IsOpen(host, host.focus) => host.active = host.focus

\* Only the closing of a focused tab that is not open leaves another PDF shown
\* than the tab row says.
FocusKeptShown ==
    [][ShowsTheFocus /\ ~ShowsTheFocus'
            => host.focus \notin Awake(host)' /\ ~IsOpen(host, host.focus)]_vars

\* Once no sleep is under way, no more PDFs that were shown stay open than
\* AWAKE_READERS, but for those that could not settle.
AwakeBound ==
    \A k \in Past(host) : IsOpen(host, k)
        => k \in spared \/ \E t \in host.settling : t.key = k /\ t.current

\* Unsaved or refused edits go only when the user discards them.
Dropped(k) == host.work[k] # "saved" /\ host.work'[k] = "saved" /\ host'.held[k] # host.held[k]
SettledBeforeClosed ==
    [][\A k \in Keys : Dropped(k) => Discard(k) \/ Reload(k)]_vars

\* A PDF that was laid out sleeps at the page it was at.
SleepsWhereItWas ==
    [][\A k \in Keys : k \in host.laidOut /\ k \in Asleep(host)'
            => host'.marks[k].at = host.at[k]]_vars

\* The tab row, the focus and EmbedPDF's document manager agree between any two
\* steps of the reader's callbacks, and no more PDFs stay awake than they should.
TabsSound == TypeOK /\ FocusIsAwake /\ ManagerHoldsOpen /\ AwakeBound
=============================================================================
