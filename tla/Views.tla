-------------------------------- MODULE Views --------------------------------
(* What one window makes of what it holds: the Timeline of the stored reading   *)
(* sessions, the columns of the library table with the layout kept for the next *)
(* visit, and the keys with the bindings the user recorded.                     *)
EXTENDS Integers, Sequences, FiniteSets

CONSTANTS
    Columns,        \* in their default order
    Shown,          \* the columns shown by default
    LockedColumn,   \* the column that can never be hidden
    Keys,           \* key combinations
    Bound,          \* the default combination of each action (Actions -> Keys)
    OpenKeys,       \* combinations with Enter
    DeleteKeys,     \* combinations with Delete
    Recordable,     \* combinations a binding may be: those with Ctrl, Alt or Meta
    MergeGap,       \* MERGE_GAP_MS, in steps of the sessions' clock
    NoAction

ASSUME ViewsAssumption ==
    /\ LockedColumn \in Shown /\ Shown \subseteq {Columns[n] : n \in DOMAIN Columns}
    /\ \A n, m \in DOMAIN Columns : Columns[n] = Columns[m] => n = m
    /\ Columns \in Seq({Columns[n] : n \in DOMAIN Columns})
    /\ \A a, b \in DOMAIN Bound : Bound[a] = Bound[b] => a = b
    /\ {"open", "delete"} \cap DOMAIN Bound = {} /\ OpenKeys \cap DeleteKeys = {}
    /\ Recordable \subseteq Keys /\ MergeGap \in Nat

VARIABLES
    sessions,    \* the reading sessions the Timeline read
    order,       \* the table's columns, hidden ones included
    visible,
    kept,        \* the layout in the browser's storage
    saved,       \* the bindings in the browser's storage, or NoAction for none
    recording,   \* the action whose new combination is being recorded
    focus,       \* what the keys go to: the library's page, a text or control of it, a dialog, a tab
    did          \* what the last key press did

viewsVars == <<sessions, order, visible, kept, saved, recording, focus, did>>

ColumnIds == {Columns[n] : n \in DOMAIN Columns}
Actions == DOMAIN Bound

----------------------------------------------------------------------------
(* The Timeline: sessions of one PDF, each [key, opened, seen, seconds, pages]. *)

\* The seconds read in sessions S, added up.
SecondsOf(S) ==
    LET sum[T \in SUBSET S] ==
            IF T = {} THEN 0 ELSE LET one == CHOOSE s \in T : TRUE IN one.seconds + sum[T \ {one}]
    IN sum[S]

Latest(a, b) == IF a >= b THEN a ELSE b

EntryOf(s) == [key |-> s.key, opened |-> s.opened, seen |-> s.seen, of |-> {s}]

\* A bug it could have: an entry ends where its last session does.
JoinedLast(e, s) == [e EXCEPT !.seen = s.seen, !.of = @ \cup {s}]

\* A session that ends before the ones it joins leaves the entry's end.
Joined(e, s) == [e EXCEPT !.seen = Latest(e.seen, s.seen), !.of = @ \cup {s}]

\* A bug it could have: an entry joins what opens before the gap is over since it was opened.
JoinsOpened(e, s) == s.key = e.key /\ s.opened - e.opened <= MergeGap

Joins(e, s) == s.key = e.key /\ s.opened - e.seen <= MergeGap

\* The entries of sessions of one PDF: one after another by opening, each joins the last entry or
\* begins one.
KeyEntries(S) ==
    LET entries[T \in SUBSET S] ==   \* of T's sessions and, before them, the others
            IF T = {} THEN <<>>
            ELSE LET last == CHOOSE s \in T : \A t \in T : s.opened >= t.opened
                     es == entries[T \ {last}]
                 IN IF es # <<>> /\ Joins(es[Len(es)], last)
                    THEN [es EXCEPT ![Len(es)] = Joined(@, last)]
                    ELSE Append(es, EntryOf(last))
    IN {entries[S][n] : n \in DOMAIN entries[S]}

\* Those read for less than the chosen minimum are left out.
TimelineEntries(S, minimum) ==
    {e \in UNION {KeyEntries({s \in S : s.key = k}) : k \in {s.key : s \in S}} :
        SecondsOf(e.of) >= minimum}

\* A bug it could have: any later page extends the range.
ExtendsAny(last, page) == page > last[2]

Extends(last, page) == page = last[2] + 1

\* Pages, ascending, as ranges <<from, to>>.
PageRanges(pages) ==
    LET ranges[P \in SUBSET pages] ==
            IF P = {} THEN <<>>
            ELSE LET page == CHOOSE p \in P : \A q \in P : p >= q
                     rs == ranges[P \ {page}]
                 IN IF rs # <<>> /\ Extends(rs[Len(rs)], page)
                    THEN [rs EXCEPT ![Len(rs)] = <<rs[Len(rs)][1], page>>]
                    ELSE Append(rs, <<page, page>>)
    IN ranges[pages]

----------------------------------------------------------------------------
(* The table's columns.                                                         *)

\* Every change of the layout is kept.
Lay(o, v) ==
    /\ order' = o /\ visible' = v \cup {LockedColumn}
    /\ kept' = [order |-> o, visible |-> v \cup {LockedColumn}]
    /\ UNCHANGED <<sessions, saved, recording, focus, did>>

\* How many columns are before x, which is in the order once.
Before(o, x) == CHOOSE n \in 0..Len(o) - 1 : o[n + 1] = x
Without(o, x) == SubSeq(o, 1, Before(o, x)) \o SubSeq(o, Before(o, x) + 2, Len(o))
Insert(o, n, x) == SubSeq(o, 1, n) \o <<x>> \o SubSeq(o, n + 1, Len(o))

\* A bug it could have: the dragged column is not taken from its old slot.
ReorderedTwice(o, dragged, target) == Insert(o, Before(o, target), dragged)

\* The dragged column lands before the one it is dropped on.
Reordered(o, dragged, target) ==
    LET rest == Without(o, dragged) IN Insert(rest, Before(rest, target), dragged)

ReorderColumn(dragged, target) == dragged # target /\ Lay(Reordered(order, dragged, target), visible)
ToggleColumn(c) == Lay(order, IF c \in visible THEN visible \ {c} ELSE visible \cup {c})
ShowAllColumns == Lay(order, ColumnIds)
ResetColumns == Lay(Columns, Shown)

\* Another visit reads the layout kept; one of another set of columns is reported.
ReadLayout == Len(kept.order) = Len(Columns) /\ \A n \in DOMAIN kept.order : kept.order[n] \in ColumnIds
Reopen ==
    /\ ReadLayout
    /\ order' = kept.order /\ visible' = kept.visible \cup {LockedColumn}
    /\ recording' = NoAction /\ focus' = "page" /\ did' = {}
    /\ UNCHANGED <<sessions, kept, saved>>

----------------------------------------------------------------------------
(* The keys.                                                                    *)

Foci == {"page", "typing", "dialog", "tab"}

\* The saved binding of each action, or its default.
Keybindings == [a \in Actions |-> IF saved = NoAction THEN Bound[a] ELSE saved[a]]

Unlaid == UNCHANGED <<sessions, order, visible, kept>>

FocusOn(p) ==
    /\ focus' = p /\ recording' = NoAction /\ did' = {}
    /\ UNCHANGED saved /\ Unlaid

\* The settings' button of an action waits for its new combination.
Record(a) ==
    /\ focus = "page" /\ recording' = a /\ did' = {}
    /\ UNCHANGED <<saved, focus>> /\ Unlaid

\* A bug it could have: a combination is refused only when another action has it saved.
InUseSaved(a, k) == saved # NoAction /\ \E b \in Actions \ {a} : saved[b] = k

\* Another action has the combination.
InUse(a, k) == \E b \in Actions \ {a} : Keybindings[b] = k

\* A press while a combination is recorded: it is bound, unless it is in use or not one to bind.
RecordKey(k) ==
    /\ recording # NoAction
    /\ did' = {}
    /\ IF k \in Recordable /\ ~InUse(recording, k)
       THEN saved' = [Keybindings EXCEPT ![recording] = k] /\ recording' = NoAction
       ELSE UNCHANGED <<saved, recording>>
    /\ UNCHANGED focus /\ Unlaid

\* What is done by a press of k: the row of tabs answers everywhere, the library's palettes and
\* field while the library is shown, and Enter and Delete, whatever is held down with them, of
\* its page while nothing else takes them; the key of the field goes no further.
Doing(k) ==
    LET bound == {a \in Actions : Keybindings[a] = k}
        onPage == focus = "page" /\ "focusSearch" \notin bound
    IN {a \in bound : focus = "tab" => a \in {"closeTab", "nextTab", "previousTab"}}
       \cup (IF k \in OpenKeys /\ onPage THEN {"open"} ELSE {})
       \cup (IF k \in DeleteKeys /\ onPage THEN {"delete"} ELSE {})

Press(k) ==
    /\ recording = NoAction /\ did' = Doing(k)
    /\ UNCHANGED <<saved, recording, focus>> /\ Unlaid

ResetKeybindings ==
    /\ saved' = NoAction /\ recording' = NoAction /\ did' = {}
    /\ UNCHANGED focus /\ Unlaid

ViewsInit(held) ==
    /\ sessions = held
    /\ order = Columns /\ visible = Shown /\ kept = [order |-> Columns, visible |-> Shown]
    /\ saved = NoAction /\ recording = NoAction /\ focus = "page" /\ did = {}

ColumnsNext ==
    \/ \E c \in ColumnIds : ToggleColumn(c) \/ \E t \in ColumnIds : ReorderColumn(c, t)
    \/ ShowAllColumns \/ ResetColumns \/ Reopen

KeysNext ==
    \/ \E p \in Foci : FocusOn(p)
    \/ \E a \in Actions : Record(a)
    \/ \E k \in Keys : RecordKey(k) \/ Press(k)
    \/ ResetKeybindings

----------------------------------------------------------------------------
(* Properties.                                                                  *)

\* The Timeline's entries are the runs of reading: the sessions of a PDF fall in one entry exactly
\* when no moment between them lies further than the gap from every one of them, and none is lost.
EntriesAreRuns ==
    LET entries == TimelineEntries(sessions, 0)
        parted(s, t) ==   \* sessions s and t of one PDF: a gap longer than MergeGap lies between
            \E u \in sessions :
                /\ u.key = s.key /\ s.opened < u.opened /\ u.opened <= t.opened
                /\ \A v \in sessions : v.key = s.key /\ v.opened < u.opened => u.opened - v.seen > MergeGap
    IN /\ \A s \in sessions : \E e \in entries : s \in e.of
       /\ \A e \in entries, s \in sessions :
             s \in e.of <=> s.key = e.key /\ \A t \in e.of : ~parted(s, t) /\ ~parted(t, s)
       /\ \A e \in entries : /\ \A s \in e.of : e.opened <= s.opened /\ s.seen <= e.seen
                             /\ \E s \in e.of : e.seen = s.seen

\* The ranges of an entry name its pages and no other, and no two of them could be one.
RangesExact ==
    \A e \in TimelineEntries(sessions, 0) :
        LET pages == UNION {s.pages : s \in e.of}
            rs == PageRanges(pages)
        IN /\ UNION {rs[n][1]..rs[n][2] : n \in DOMAIN rs} = pages
           /\ \A n \in DOMAIN rs : n > 1 => rs[n - 1][2] + 1 < rs[n][1]

\* However columns are dragged and hidden, the table holds each of them once, shows the locked one,
\* and the layout kept is one the next visit can read and shows again.
ColumnsKept ==
    /\ Len(order) = Len(Columns) /\ {order[n] : n \in DOMAIN order} = ColumnIds
    /\ LockedColumn \in visible
    /\ ReadLayout /\ kept = [order |-> order, visible |-> visible]

\* However bindings are recorded over one another and reset, a press does one bound action at
\* most. It does two things only where a combination with Enter or Delete is bound: the action
\* and, since useLibraryShortcuts.ts:46-53 asks for the key alone, open or delete.
OneActionEach ==
    \A x, y \in did : x # y =>
        /\ {x, y} \cap {"open", "delete"} # {}
        /\ \E a \in {x, y} \cap Actions : a # "focusSearch" /\ Keybindings[a] \in OpenKeys \cup DeleteKeys

\* What a window computes of what it holds is what it means: the Timeline, the columns, the keys.
ViewsExact == EntriesAreRuns /\ RangesExact /\ ColumnsKept /\ OneActionEach
=============================================================================
