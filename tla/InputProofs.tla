----------------------------- MODULE InputProofs -----------------------------
(* Theorems about the reader's own input: Back and Forward walk as a browser's, *)
(* however many pages a PDF has and however many positions are kept; and        *)
(* nothing of a stroke, an erasure or a press stays behind, whatever ends it,   *)
(* for any PDFs, tools, annotations and places.  A reading session counts no    *)
(* time that was not read, and all that was read at a stretch, for any pages,   *)
(* any times to idle and to count, and any clock.                               *)
EXTENDS PointerInput, ReadingSession, JumpHistory, SequenceTheorems, TLAPS

-----------------------------------------------------------------------------
(* The jump history.                                                            *)

\* Any slice of a sequence, by its length and its elements.
LEMMA Slice ==
    ASSUME NEW S, NEW s \in Seq(S), NEW m \in Nat \ {0}, NEW n \in 0..Len(s)
    PROVE  /\ SubSeq(s, m, n) \in Seq(S)
           /\ Len(SubSeq(s, m, n)) = IF m <= n THEN n - m + 1 ELSE 0
           /\ \A i \in 1..(n - m + 1) : SubSeq(s, m, n)[i] = s[m + i - 1]
<1>1. \A i \in m..n : s[i] \in S BY ElementOfSeq, LenProperties
<1> QED BY <1>1, SubSeqProperties

\* The positions kept, and the index in them, stay what they are typed to be.
LEMMA TypeInductive == ASSUME HistoryTypeOK, [HistoryNext]_historyVars PROVE HistoryTypeOK'
<1> USE DEF HistoryTypeOK
<1>1. ASSUME NEW to \in Positions, Jump(to) PROVE HistoryTypeOK'
  <2>1. /\ SubSeq(positions, 1, index) \in Seq(Positions)
        /\ Len(SubSeq(positions, 1, index)) = index
    BY Slice, LenProperties
  <2>2. positions' \in Seq(Positions) /\ Len(positions') = index + 1
    BY <1>1, <2>1, AppendProperties DEF Jump, Jumped
  <2> QED BY <1>1, <2>2 DEF Jump, Jumped
<1>2. ASSUME NEW to \in Positions, Scroll(to) PROVE HistoryTypeOK'
  BY <1>2 DEF Scroll
<1>3. ASSUME NEW step \in {-1, 1}, Walk(step) PROVE HistoryTypeOK'
  <2>1. Len(positions) \in Nat BY LenProperties
  <2>2. position' \in Positions BY <1>3, <2>1, ElementOfSeq DEF Walk, Keeps, Kept
  <2>3. CASE Keeps(index)
    <3>1. index + 1 \in 1..Len(positions) BY <2>1, <2>3 DEF Keeps
    <3>2. positions' = [positions EXCEPT ![index + 1] = position] BY <1>3, <2>3 DEF Walk, Stored
    <3>3. positions' \in Seq(Positions) /\ Len(positions') = Len(positions) BY <3>1, <3>2, ExceptSeq
    <3> QED BY <1>3, <2>1, <2>2, <3>3 DEF Walk, Keeps
  <2>4. CASE ~Keeps(index)
    <3>1. positions' = Append(positions, position) BY <1>3, <2>4 DEF Walk, Stored
    <3>2. positions' \in Seq(Positions) /\ Len(positions') = Len(positions) + 1 BY <3>1, AppendProperties
    <3> QED BY <1>3, <2>1, <2>2, <3>2 DEF Walk, Keeps
  <2> QED BY <2>3, <2>4
<1>4. CASE UNCHANGED historyVars BY <1>4 DEF historyVars
<1> QED BY <1>1, <1>2, <1>3, <1>4 DEF HistoryNext

\* The index of a reader's history always lies in its positions or right after them.
THEOREM HistoryTyped == HistorySpec => []HistoryTypeOK
<1>1. HistoryInit => HistoryTypeOK BY EmptySeq DEF HistoryInit, HistoryTypeOK
<1> QED BY <1>1, TypeInductive, PTL DEF HistorySpec

----------------------------------------------------------------------------
(* Each step of the history is one of a browser's.                              *)

Behind == SubSeq(positions, 1, index)
Ahead == SubSeq(positions, index + 2, Len(positions))

\* A jump puts its place behind and leaves nothing ahead.
LEMMA JumpGoes == ASSUME HistoryTypeOK, NEW to \in Positions, Jump(to) PROVE Browser!Go(to)
<1> USE DEF HistoryTypeOK
<1>1. Behind \in Seq(Positions) /\ Len(Behind) = index BY Slice, LenProperties DEF Behind
<1>2. positions' = Append(Behind, position) /\ index' = index + 1 /\ position' = to
  BY DEF Jump, Jumped, Behind
<1>3. positions' \in Seq(Positions) /\ Len(positions') = index' BY <1>1, <1>2, AppendProperties
<1>4. SubSeq(positions', 1, index') = positions'
  <2>1. /\ SubSeq(positions', 1, index') \in Seq(Positions)
        /\ Len(SubSeq(positions', 1, index')) = Len(positions')
        /\ \A i \in 1..Len(positions') : SubSeq(positions', 1, index')[i] = positions'[i]
    BY <1>2, <1>3, Slice
  <2> QED BY <1>3, <2>1, SeqEqual
<1>5. SubSeq(positions', index' + 2, Len(positions')) = <<>> BY <1>2, <1>3, SubSeqEmpty
<1> QED BY <1>2, <1>4, <1>5 DEF Browser!Go, Behind

\* Scrolling moves no place.
LEMMA ScrollWanders == ASSUME NEW to \in Positions, Scroll(to) PROVE Browser!Wander(to)
BY DEF Scroll, Browser!Wander

\* A step forward goes to the nearest place ahead and leaves its own behind.
LEMMA WalkGoesForward == ASSUME HistoryTypeOK, Walk(1) PROVE Browser!GoForward
<1> USE DEF HistoryTypeOK
<1> DEFINE n == Len(positions)
<1>1. n \in Nat /\ index + 1 \in 0..n - 1 /\ index \in Nat BY LenProperties DEF Walk, Keeps
<1>2. positions' = [positions EXCEPT ![index + 1] = position] /\ index' = index + 1
  BY <1>1 DEF Walk, Stored, Keeps
<1>3. /\ positions' \in Seq(Positions) /\ Len(positions') = n
      /\ \A j \in 1..n : positions'[j] = IF j = index + 1 THEN position ELSE positions[j]
  BY <1>1, <1>2, ExceptSeq
<1>4. /\ Behind \in Seq(Positions) /\ Len(Behind) = index
      /\ \A i \in 1..index : Behind[i] = positions[i]
  BY <1>1, Slice DEF Behind
<1>5. /\ Ahead \in Seq(Positions) /\ Len(Ahead) = n - index - 1
      /\ \A i \in 1..(n - index - 1) : Ahead[i] = positions[index + 1 + i]
  BY <1>1, Slice DEF Ahead
<1>6. Behind' = Append(Behind, position)
  <2>1. /\ Behind' \in Seq(Positions) /\ Len(Behind') = index + 1
        /\ \A i \in 1..(index + 1) : Behind'[i] = positions'[i]
    BY <1>1, <1>2, <1>3, Slice DEF Behind
  <2>2. /\ Append(Behind, position) \in Seq(Positions) /\ Len(Append(Behind, position)) = index + 1
        /\ \A i \in 1..index : Append(Behind, position)[i] = Behind[i]
        /\ Append(Behind, position)[index + 1] = position
    BY <1>4, AppendProperties
  <2>3. ASSUME NEW i \in 1..(index + 1) PROVE Behind'[i] = Append(Behind, position)[i]
    <3>1. Behind'[i] = positions'[i] BY <2>1
    <3>2. CASE i = index + 1 BY <1>1, <1>3, <2>2, <3>1, <3>2
    <3>3. CASE i # index + 1
      <4>1. i \in 1..index /\ i \in 1..n BY <1>1, <3>3
      <4>2. Append(Behind, position)[i] = positions[i] BY <1>4, <2>2, <4>1
      <4> QED BY <1>3, <3>1, <3>3, <4>1, <4>2
    <3> QED BY <3>2, <3>3
  <2> QED BY <2>1, <2>2, <2>3, SeqEqual
<1>7. Ahead # <<>> BY <1>1, <1>5, EmptySeq
<1>8. Ahead' = Tail(Ahead)
  <2>1. /\ Ahead' \in Seq(Positions) /\ Len(Ahead') = n - index - 2
        /\ \A i \in 1..(n - index - 2) : Ahead'[i] = positions'[index + 2 + i]
    <3>1. Ahead' = SubSeq(positions', index + 3, n)
      <4>1. index' + 2 = index + 3 BY <1>1, <1>2
      <4> QED BY <1>3, <4>1 DEF Ahead
    <3>2. /\ SubSeq(positions', index + 3, n) \in Seq(Positions)
          /\ Len(SubSeq(positions', index + 3, n)) = IF index + 3 <= n THEN n - (index + 3) + 1 ELSE 0
          /\ \A i \in 1..(n - (index + 3) + 1) :
                SubSeq(positions', index + 3, n)[i] = positions'[index + 3 + i - 1]
      BY <1>1, <1>3, Slice
    <3>3. ASSUME NEW i \in 1..(n - index - 2) PROVE Ahead'[i] = positions'[index + 2 + i]
      <4>1. i \in 1..(n - (index + 3) + 1) /\ index + 3 + i - 1 = index + 2 + i BY <1>1
      <4> QED BY <3>1, <3>2, <4>1
    <3> QED BY <1>1, <3>1, <3>2, <3>3
  <2>2. /\ Tail(Ahead) \in Seq(Positions) /\ Len(Tail(Ahead)) = n - index - 2
        /\ \A i \in 1..(n - index - 2) : Tail(Ahead)[i] = Ahead[i + 1]
    BY <1>1, <1>5, <1>7, HeadTailProperties
  <2>3. \A i \in 1..(n - index - 2) : Ahead'[i] = Tail(Ahead)[i]
    BY <1>1, <1>3, <1>5, <2>1, <2>2
  <2> QED BY <2>1, <2>2, <2>3, SeqEqual
<1>9. position' = Ahead[1] BY <1>1, <1>5 DEF Walk, Kept
<1> QED BY <1>6, <1>7, <1>8, <1>9 DEF Browser!GoForward, Behind, Ahead

\* A step back goes to the nearest place behind and leaves its own ahead.
LEMMA WalkGoesBack == ASSUME HistoryTypeOK, Walk(-1) PROVE Browser!GoBack
<1> USE DEF HistoryTypeOK
<1> DEFINE n == Len(positions)
<1>1. n \in Nat /\ index \in 1..n /\ index' = index - 1 BY LenProperties DEF Walk, Keeps
<1>2. /\ Behind \in Seq(Positions) /\ Len(Behind) = index
      /\ \A i \in 1..index : Behind[i] = positions[i]
  BY <1>1, Slice DEF Behind
<1>3. /\ Ahead \in Seq(Positions) /\ Len(Ahead) = IF index < n THEN n - index - 1 ELSE 0
      /\ \A i \in 1..(n - index - 1) : Ahead[i] = positions[index + 1 + i]
  BY <1>1, Slice DEF Ahead
<1>4. /\ positions' \in Seq(Positions) /\ Len(positions') = IF index < n THEN n ELSE n + 1
      /\ positions'[index + 1] = position
      /\ \A j \in 1..n : j # index + 1 => positions'[j] = positions[j]
  <2>1. CASE index < n
    <3>1. index + 1 \in 1..n /\ positions' = [positions EXCEPT ![index + 1] = position]
      BY <1>1, <2>1 DEF Walk, Stored, Keeps
    <3> QED BY <1>1, <2>1, <3>1, ExceptSeq
  <2>2. CASE index = n
    <3>1. positions' = Append(positions, position) BY <1>1, <2>2 DEF Walk, Stored, Keeps
    <3> QED BY <1>1, <2>2, <3>1, AppendProperties
  <2> QED BY <1>1, <2>1, <2>2
<1>5. Behind # <<>> BY <1>1, <1>2, EmptySeq
<1>6. position' = Behind[Len(Behind)] BY <1>1, <1>2 DEF Walk, Kept
<1>7. Behind' = SubSeq(Behind, 1, Len(Behind) - 1)
  <2>1. /\ Behind' \in Seq(Positions) /\ Len(Behind') = index - 1
        /\ \A i \in 1..(index - 1) : Behind'[i] = positions'[i]
    BY <1>1, <1>4, Slice DEF Behind
  <2>2. /\ SubSeq(Behind, 1, index - 1) \in Seq(Positions) /\ Len(SubSeq(Behind, 1, index - 1)) = index - 1
        /\ \A i \in 1..(index - 1) : SubSeq(Behind, 1, index - 1)[i] = Behind[i]
    BY <1>1, <1>2, Slice
  <2>3. ASSUME NEW i \in 1..(index - 1) PROVE Behind'[i] = SubSeq(Behind, 1, index - 1)[i]
    <3>1. i \in 1..index /\ i \in 1..n /\ i # index + 1 BY <1>1
    <3>2. Behind'[i] = positions[i] BY <1>4, <2>1, <3>1
    <3> QED BY <1>2, <2>2, <3>1, <3>2
  <2> QED BY <1>2, <2>1, <2>2, <2>3, SeqEqual
<1>8. Ahead' = <<position>> \o Ahead
  <2> DEFINE k == IF index < n THEN n - index ELSE 1
  <2>1. /\ Ahead' \in Seq(Positions) /\ Len(Ahead') = k
        /\ \A i \in 1..k : Ahead'[i] = positions'[index + i]
    BY <1>1, <1>4, Slice DEF Ahead
  <2>2. <<position>> \in Seq(Positions) /\ Len(<<position>>) = 1 /\ <<position>>[1] = position OBVIOUS
  <2>3. /\ <<position>> \o Ahead \in Seq(Positions) /\ Len(<<position>> \o Ahead) = k
        /\ \A i \in 1..k : (<<position>> \o Ahead)[i] = IF i <= 1 THEN position ELSE Ahead[i - 1]
    BY <1>1, <1>3, <2>2, ConcatProperties
  <2>4. ASSUME NEW i \in 1..k PROVE Ahead'[i] = (<<position>> \o Ahead)[i]
    <3>1. Ahead'[i] = positions'[index + i] BY <2>1
    <3>2. CASE i = 1 BY <1>4, <2>3, <3>1, <3>2
    <3>3. CASE i # 1
      <4>1. i - 1 \in 1..(n - index - 1) /\ index + i \in 1..n /\ index + i # index + 1 BY <1>1, <3>3
      <4>2. Ahead'[i] = positions[index + i] BY <1>4, <3>1, <4>1
      <4>3. Ahead[i - 1] = positions[index + 1 + (i - 1)] BY <1>3, <4>1
      <4>4. index + 1 + (i - 1) = index + i BY <1>1, <4>1
      <4>5. (<<position>> \o Ahead)[i] = Ahead[i - 1] BY <2>3, <4>1
      <4> QED BY <4>2, <4>3, <4>4, <4>5
    <3> QED BY <3>2, <3>3
  <2> QED BY <2>1, <2>3, <2>4, SeqEqual
<1> QED BY <1>5, <1>6, <1>7, <1>8 DEF Browser!GoBack, Browser!Front, Behind, Ahead

\* Back and Forward walk as a browser's: the refinement the run of the reader's input checks.
THEOREM WalksAsBrowserAlways == HistorySpec => WalksAsBrowser
<1>1. HistoryInit => Browser!BrowserInit
  BY SubSeqEmpty, EmptySeq DEF HistoryInit, Browser!BrowserInit
<1>2. ASSUME HistoryTypeOK, [HistoryNext]_historyVars PROVE [Browser!BrowserNext]_(Browser!browserVars)
  <2>1. ASSUME NEW to \in Positions, Jump(to) PROVE Browser!BrowserNext
    BY <1>2, <2>1, JumpGoes DEF Browser!BrowserNext
  <2>2. ASSUME NEW to \in Positions, Scroll(to) PROVE Browser!BrowserNext
    BY <2>2, ScrollWanders DEF Browser!BrowserNext
  <2>3. ASSUME NEW step \in {-1, 1}, Walk(step) PROVE Browser!BrowserNext
    BY <1>2, <2>3, WalkGoesForward, WalkGoesBack DEF Browser!BrowserNext
  <2>4. CASE UNCHANGED historyVars BY <2>4 DEF historyVars, Browser!browserVars
  <2> QED BY <1>2, <2>1, <2>2, <2>3, <2>4 DEF HistoryNext
<1> QED BY <1>1, <1>2, HistoryTyped, PTL DEF HistorySpec, WalksAsBrowser, Browser!BrowserSpec

-----------------------------------------------------------------------------
(* The pointer.                                                                 *)

Viewers ==
    [active : Docs \cup {None}, laidOut : SUBSET Docs, toolbar : [Docs -> Toolbars],
     tool : [Docs -> Tools \cup {None}], drawn : SUBSET PdfPages]
Pens ==
    [down : BOOLEAN, restoring : Tools \cup {None}, began : Docs \cup {None},
     mode : {"unknown", "annotation-toolbar", None}, last : Points \cup {None}]

\* A stroke that goes on began in a PDF; until the user takes up another tool, that PDF has
\* the highlighter in the place of the tool chosen.
StrokeKnown ==
    pen.down =>
        /\ pen.began \in Docs
        /\ \A d \in Docs \ chosen.left :
              IF d = pen.began /\ viewer.tool[d] = "highlight" THEN pen.restoring = chosen.tool[d]
              ELSE viewer.tool[d] = chosen.tool[d]

\* Only what a press paused is suspended.
PauseKnown == press.suspended => press.paused /\ press.held

ChosenTyped == chosen.tool \in [Docs -> Tools \cup {None}] /\ DOMAIN chosen = {"tool", "left"}

PInv ==
    /\ PointerTypeOK /\ ChosenTyped
    /\ StaysWhereItBegan /\ ToolRestored /\ StrokeKnown /\ PauseKnown /\ DesktopKnowsMode

\* The end of a stroke in viewer V, which at most shows another PDF: only tools change, and each
\* PDF no stroke left has the tool its user chose.
LEMMA RestoreToolKnown ==
    ASSUME PInv, NEW v \in Viewers, v.tool = viewer.tool, NEW left, chosen.left \subseteq left,
           pen.down => v.active = pen.began \/ {v.active, pen.began} \subseteq left
    PROVE  /\ RestoreTool(v) \in Viewers
           /\ RestoreTool(v).active = v.active /\ RestoreTool(v).laidOut = v.laidOut
           /\ RestoreTool(v).toolbar = v.toolbar
           /\ \A d \in Docs \ left : RestoreTool(v).tool[d] = chosen.tool[d]
  <1>1. /\ pen.down \in BOOLEAN /\ pen.restoring \in Tools \cup {None}
        /\ \A d \in Docs : viewer.tool[d] \in Tools \cup {None}
    BY DEF PInv, PointerTypeOK
  <1>2. ASSUME pen.down, NEW d \in Docs \ left, d = pen.began \/ d = v.active
        PROVE  d = pen.began /\ d = v.active
    BY <1>2
  <1>3. CASE pen.down /\ v.active # None /\ v.tool[v.active] = "highlight"
    <2> DEFINE n == RestoreTool(v)
    <2>1. v.active \in Docs
      BY <1>3 DEF Viewers
    <2>2. n = [v EXCEPT !.tool = [v.tool EXCEPT ![v.active] = pen.restoring]]
      BY <1>3 DEF RestoreTool
    <2>3. /\ n \in Viewers /\ n.active = v.active /\ n.laidOut = v.laidOut /\ n.toolbar = v.toolbar
          /\ n.tool[v.active] = pen.restoring
          /\ \A d \in Docs : d # v.active => n.tool[d] = v.tool[d]
      BY <1>1, <2>1, <2>2 DEF Viewers
    <2> HIDE DEF n
    <2>4. ASSUME NEW d \in Docs \ left
          PROVE  n.tool[d] = chosen.tool[d]
      <3>1. CASE d = v.active
        BY <1>2, <1>3, <2>3, <3>1 DEF PInv, StrokeKnown
      <3>2. CASE d # v.active
        BY <1>2, <1>3, <2>3, <3>2 DEF PInv, StrokeKnown
      <3> QED BY <3>1, <3>2
    <2> QED BY <2>3, <2>4 DEF n
  <1>4. CASE ~(pen.down /\ v.active # None /\ v.tool[v.active] = "highlight")
    <2>1. RestoreTool(v) = v
      BY <1>4 DEF RestoreTool
    <2>2. ASSUME NEW d \in Docs \ left
          PROVE  v.tool[d] = chosen.tool[d]
      <3>1. CASE ~pen.down
        BY <3>1 DEF PInv, ToolRestored
      <3>2. CASE pen.down
        <4>1. d = pen.began => d # None /\ v.tool[d] # "highlight"
          BY <1>2, <1>4, <3>2, PointerAssumption
        <4> QED BY <3>2, <4>1 DEF PInv, StrokeKnown
      <3> QED BY <3>1, <3>2
    <2> QED BY <2>1, <2>2
  <1> QED BY <1>3, <1>4

\* Nothing goes on once a stroke, or an erasure, has been ended.
LEMMA EndedKnown ==
    ASSUME PInv, NEW v \in Viewers, v.tool = viewer.tool, LostFocus(v)
    PROVE  /\ viewer' \in Viewers /\ ChosenTyped'
           /\ viewer'.active = v.active /\ viewer'.laidOut = v.laidOut /\ viewer'.toolbar = v.toolbar
           /\ pen' \in Pens /\ StaysWhereItBegan' /\ ToolRestored' /\ StrokeKnown'
  <1>1. /\ viewer' = RestoreTool(v) /\ pen' = Idle
        /\ chosen' = IF pen.down /\ v.active # pen.began
                     THEN [chosen EXCEPT !.left = @ \cup {pen.began, v.active}] ELSE chosen
    BY DEF LostFocus, LeftBehind
  <1>2. /\ chosen.left \subseteq chosen'.left /\ chosen'.tool = chosen.tool /\ ChosenTyped'
        /\ pen.down => v.active = pen.began \/ {v.active, pen.began} \subseteq chosen'.left
    BY <1>1 DEF PInv, ChosenTyped
  <1>3. /\ RestoreTool(v) \in Viewers
        /\ RestoreTool(v).active = v.active /\ RestoreTool(v).laidOut = v.laidOut
        /\ RestoreTool(v).toolbar = v.toolbar
        /\ \A d \in Docs \ chosen'.left : RestoreTool(v).tool[d] = chosen.tool[d]
    BY <1>2, RestoreToolKnown
  <1>4. ~pen'.down /\ pen'.last = None /\ pen' \in Pens
    BY <1>1 DEF Idle, Pens
  <1> QED BY <1>1, <1>2, <1>3, <1>4 DEF StaysWhereItBegan, ToolRestored, StrokeKnown

LEMMA PointerInitial == PointerInit => PInv
  BY PointerAssumption DEF PointerInit, Idle, Toolbars, PInv, PointerTypeOK, ChosenTyped,
     StaysWhereItBegan, ToolRestored, StrokeKnown, PauseKnown, DesktopKnowsMode

LEMMA PressedKnown ==
    ASSUME PInv, NEW at \in Points, NEW eraser \in BOOLEAN, Pressed(at, eraser)
    PROVE  PInv'
  <1>1. /\ ActiveToolbar(viewer) \in {None, "annotation-toolbar"} /\ ~pen.down /\ pen.last = None
        /\ UNCHANGED <<press, window, chosen>>
    BY DEF Pressed
  <1>2. viewer.active \in viewer.laidOut /\ viewer.active \in Docs
    BY <1>1, PointerAssumption DEF ActiveToolbar, PInv, PointerTypeOK
  <1>3. ChosenTyped' /\ PauseKnown'
    BY <1>1 DEF PInv, ChosenTyped, PauseKnown
  <1>4. CASE eraser
    <2>1. /\ pen' = [pen EXCEPT !.last = at, !.began = viewer.active, !.mode = ActiveToolbar(viewer)]
          /\ UNCHANGED viewer /\ kept' \subseteq kept
      BY <1>4 DEF Pressed
    <2>2. PointerTypeOK'
      BY <1>1, <1>2, <2>1 DEF PInv, PointerTypeOK
    <2>3. ~pen'.down /\ pen'.began = viewer.active /\ pen'.mode = ActiveToolbar(viewer)
      BY <1>1, <2>1 DEF PInv, PointerTypeOK
    <2> QED BY <1>1, <1>3, <2>1, <2>2, <2>3
            DEF PInv, StaysWhereItBegan, ActiveToolbar, ToolRestored, StrokeKnown, DesktopKnowsMode
  <1>5. CASE ~eraser
    <2>1. /\ UNCHANGED kept
          /\ pen' = [down |-> TRUE, restoring |-> viewer.tool[viewer.active],
                     began |-> viewer.active, mode |-> ActiveToolbar(viewer), last |-> None]
          /\ viewer' = [viewer EXCEPT !.tool[viewer.active] = "highlight"]
      BY <1>5 DEF Pressed
    <2>2. /\ viewer'.active = viewer.active /\ viewer'.laidOut = viewer.laidOut
          /\ viewer'.toolbar = viewer.toolbar
          /\ viewer'.tool[viewer.active] = "highlight"
          /\ \A d \in Docs : d # viewer.active => viewer'.tool[d] = viewer.tool[d]
          /\ viewer' \in Viewers
      BY <1>2, <2>1, PointerAssumption DEF PInv, PointerTypeOK, Viewers
    <2>3. PointerTypeOK'
      BY <1>1, <1>2, <2>1, <2>2 DEF PInv, PointerTypeOK, Viewers
    <2>4. StrokeKnown'
      BY <1>1, <1>2, <2>1, <2>2 DEF PInv, ToolRestored, StrokeKnown
    <2>5. StaysWhereItBegan' /\ ToolRestored' /\ DesktopKnowsMode'
      BY <1>1, <2>1, <2>2 DEF PInv, StaysWhereItBegan, ActiveToolbar, ToolRestored, DesktopKnowsMode
    <2> QED BY <1>3, <2>3, <2>4, <2>5 DEF PInv
  <1> QED BY <1>4, <1>5

LEMMA EraserMovedKnown ==
    ASSUME PInv, NEW to \in Points, EraserMoved(to)
    PROVE  PInv'
  <1>1. /\ pen' = [pen EXCEPT !.last = to] /\ pen.last # None /\ kept' \subseteq kept
        /\ UNCHANGED <<viewer, press, window, chosen>>
    BY DEF EraserMoved
  <1>2. /\ PointerTypeOK' /\ pen'.down = pen.down /\ pen'.began = pen.began
        /\ pen'.restoring = pen.restoring /\ pen'.mode = pen.mode
    BY <1>1 DEF PInv, PointerTypeOK
  <1> QED BY <1>1, <1>2 DEF PInv, ChosenTyped, StaysWhereItBegan, ActiveToolbar, ToolRestored, StrokeKnown,
                            PauseKnown, DesktopKnowsMode

\* The modes are told of a viewer that shows v.active.
LEMMA ViewerUnchanged == PInv => viewer \in Viewers
  BY DEF PInv, PointerTypeOK, Viewers

LEMMA ReleasedKnown ==
    ASSUME PInv, NEW to \in Points, NEW cancelled \in BOOLEAN, Released(to, cancelled)
    PROVE  PInv'
  <1>1. /\ kept' \subseteq kept /\ LostFocus(viewer)
        /\ press' = [press EXCEPT !.paused = FALSE, !.suspended = IF press.paused THEN FALSE ELSE @]
        /\ UNCHANGED window
    BY DEF Released
  <1>2. /\ viewer' \in Viewers /\ ChosenTyped'
        /\ viewer'.active = viewer.active /\ viewer'.laidOut = viewer.laidOut
        /\ viewer'.toolbar = viewer.toolbar
        /\ pen' \in Pens /\ StaysWhereItBegan' /\ ToolRestored' /\ StrokeKnown'
    BY <1>1, ViewerUnchanged, EndedKnown
  <1>3. PauseKnown' /\ press' \in [paused : BOOLEAN, suspended : BOOLEAN, held : BOOLEAN]
    BY <1>1 DEF PInv, PointerTypeOK, PauseKnown
  <1>4. PointerTypeOK' /\ DesktopKnowsMode'
    BY <1>1, <1>2, <1>3 DEF PInv, PointerTypeOK, Viewers, Pens, DesktopKnowsMode
  <1> QED BY <1>2, <1>3, <1>4 DEF PInv

LEMMA BlurKnown == ASSUME PInv, Blur PROVE PInv'
  <1>1. /\ LostFocus(viewer)
        /\ press' = [paused |-> FALSE, held |-> FALSE,
                     suspended |-> IF press.paused THEN FALSE ELSE press.suspended]
        /\ UNCHANGED <<kept, window>>
    BY DEF Blur
  <1>2. /\ viewer' \in Viewers /\ ChosenTyped'
        /\ viewer'.active = viewer.active /\ viewer'.laidOut = viewer.laidOut
        /\ viewer'.toolbar = viewer.toolbar
        /\ pen' \in Pens /\ StaysWhereItBegan' /\ ToolRestored' /\ StrokeKnown'
    BY <1>1, ViewerUnchanged, EndedKnown
  <1>3. PauseKnown' /\ press' \in [paused : BOOLEAN, suspended : BOOLEAN, held : BOOLEAN]
    BY <1>1 DEF PInv, PointerTypeOK, PauseKnown
  <1>4. PointerTypeOK' /\ DesktopKnowsMode'
    BY <1>1, <1>2, <1>3 DEF PInv, PointerTypeOK, Viewers, Pens, DesktopKnowsMode
  <1> QED BY <1>2, <1>3, <1>4 DEF PInv

LEMMA ButtonsKnown ==
    ASSUME PInv, SecondaryPressed \/ SecondaryReleased
    PROVE  PInv'
  <1>1. UNCHANGED <<viewer, pen, kept, window, chosen>>
    BY DEF SecondaryPressed, SecondaryReleased
  <1>2. PauseKnown' /\ press' \in [paused : BOOLEAN, suspended : BOOLEAN, held : BOOLEAN]
    <2>1. CASE SecondaryPressed
      BY <2>1 DEF SecondaryPressed, PauseKnown
    <2>2. CASE SecondaryReleased
      <3>1. press' = [paused |-> FALSE, held |-> FALSE,
                      suspended |-> IF press.paused THEN FALSE ELSE press.suspended]
        BY <2>2 DEF SecondaryReleased
      <3> QED BY <3>1 DEF PInv, PointerTypeOK, PauseKnown
    <2> QED BY <2>1, <2>2
  <1> QED BY <1>1, <1>2 DEF PInv, PointerTypeOK, ChosenTyped, StaysWhereItBegan, ActiveToolbar,
                            ToolRestored, StrokeKnown, DesktopKnowsMode

LEMMA PickToolKnown ==
    ASSUME PInv, NEW t \in Tools \cup {None}, PickTool(t)
    PROVE  PInv'
  <1>1. /\ viewer.active \in Docs /\ (pen.down => t = None)
        /\ viewer' = [viewer EXCEPT !.tool[viewer.active] = t]
        /\ chosen' = [tool |-> [chosen.tool EXCEPT ![viewer.active] = t], left |-> chosen.left \ {viewer.active}]
        /\ UNCHANGED <<pen, press, kept, window>>
    BY DEF PickTool, PInv, PointerTypeOK
  <1>2. /\ viewer' \in Viewers /\ viewer'.active = viewer.active /\ viewer'.laidOut = viewer.laidOut
        /\ viewer'.toolbar = viewer.toolbar /\ viewer'.tool[viewer.active] = t
        /\ \A d \in Docs : d # viewer.active => viewer'.tool[d] = viewer.tool[d]
    BY <1>1 DEF PInv, PointerTypeOK, Viewers
  <1>3. /\ ChosenTyped' /\ chosen'.left = chosen.left \ {viewer.active} /\ chosen'.tool[viewer.active] = t
        /\ \A d \in Docs : d # viewer.active => chosen'.tool[d] = chosen.tool[d]
    BY <1>1 DEF PInv, ChosenTyped
  <1>4. PointerTypeOK' /\ PauseKnown' /\ StaysWhereItBegan' /\ DesktopKnowsMode'
    BY <1>1, <1>2 DEF PInv, PointerTypeOK, Viewers, PauseKnown, StaysWhereItBegan,
       ActiveToolbar, DesktopKnowsMode
  <1>5. ToolRestored'
    BY <1>1, <1>2, <1>3 DEF PInv, ToolRestored
  <1>6. StrokeKnown'
    BY <1>1, <1>2, <1>3, PointerAssumption DEF PInv, StrokeKnown
  <1> QED BY <1>3, <1>4, <1>5, <1>6 DEF PInv

\* A viewer whose mode is told, once its stroke has ended.
LEMMA ModeKnown ==
    ASSUME PInv, NEW v \in Viewers, v.tool = viewer.tool, v.active \in v.laidOut,
           UpdateStylusMode(v, v.active), UNCHANGED <<press, kept>>
    PROVE  PInv'
  <1>1. /\ LostFocus(v)
        /\ window' = IF window.inView THEN [window EXCEPT !.told = StylusMode(v.toolbar[v.active])]
                     ELSE window
    BY DEF UpdateStylusMode
  <1>2. /\ viewer' \in Viewers /\ ChosenTyped'
        /\ viewer'.active = v.active /\ viewer'.laidOut = v.laidOut /\ viewer'.toolbar = v.toolbar
        /\ pen' \in Pens /\ StaysWhereItBegan' /\ ToolRestored' /\ StrokeKnown'
    BY <1>1, EndedKnown
  <1>3. window' \in [inView : BOOLEAN, told : {"inactive", "view", "annotate", "edit"}]
    BY <1>1 DEF PInv, PointerTypeOK, StylusMode
  <1>4. DesktopKnowsMode'
    BY <1>1, <1>2 DEF PInv, PointerTypeOK, DesktopKnowsMode
  <1>5. PointerTypeOK' /\ PauseKnown'
    BY <1>2, <1>3 DEF PInv, PointerTypeOK, Viewers, Pens, PauseKnown
  <1> QED BY <1>2, <1>4, <1>5 DEF PInv

LEMMA ToolbarChangedKnown ==
    ASSUME PInv, NEW t \in Toolbars, ToolbarChanged(t)
    PROVE  PInv'
  <1> DEFINE v == [viewer EXCEPT !.toolbar[viewer.active] = t]
  <1>1. /\ v \in Viewers /\ v.tool = viewer.tool /\ v.active = viewer.active
        /\ v.laidOut = viewer.laidOut
    BY DEF PInv, PointerTypeOK, Viewers
  <1>2. viewer.active \in viewer.laidOut /\ UpdateStylusMode(v, viewer.active) /\ UNCHANGED <<press, kept>>
    BY DEF ToolbarChanged
  <1> HIDE DEF v
  <1> QED BY <1>1, <1>2, ModeKnown

LEMMA LaidOutKnown ==
    ASSUME PInv, NEW d \in Docs, LaidOutFirst(d)
    PROVE  PInv'
  <1> DEFINE v == [viewer EXCEPT !.laidOut = viewer.laidOut \cup {d}]
  <1>1. /\ v \in Viewers /\ v.tool = viewer.tool /\ v.active = viewer.active
        /\ v.laidOut = viewer.laidOut \cup {d}
    BY DEF PInv, PointerTypeOK, Viewers
  <1>2. d = viewer.active /\ UpdateStylusMode(v, d) /\ UNCHANGED <<press, kept>>
    BY DEF LaidOutFirst
  <1> HIDE DEF v
  <1> QED BY <1>1, <1>2, ModeKnown

LEMMA ActivatedKnown ==
    ASSUME PInv, NEW d \in Docs, Activated(d)
    PROVE  PInv'
  <1> DEFINE v == [viewer EXCEPT !.active = d, !.drawn = {}]
  <1>1. /\ v \in Viewers /\ v.tool = viewer.tool /\ v.active = d
        /\ v.laidOut = viewer.laidOut /\ v.toolbar = viewer.toolbar
    BY DEF PInv, PointerTypeOK, Viewers
  <1>2. /\ d # viewer.active /\ UNCHANGED <<press, kept>>
        /\ IF d \in viewer.laidOut THEN UpdateStylusMode(v, d)
           ELSE viewer' = v /\ UNCHANGED <<pen, window, chosen>>
    BY DEF Activated
  <1> HIDE DEF v
  <1>3. CASE d \in viewer.laidOut
    BY <1>1, <1>2, <1>3, ModeKnown
  <1>4. CASE d \notin viewer.laidOut
    <2>1. viewer' = v /\ UNCHANGED <<pen, window, press, kept, chosen>>
      BY <1>2, <1>4
    <2>2. PointerTypeOK' /\ PauseKnown' /\ ChosenTyped'
      BY <1>1, <2>1 DEF PInv, PointerTypeOK, Viewers, PauseKnown, ChosenTyped
    <2>3. StaysWhereItBegan' /\ DesktopKnowsMode'
      BY <1>1, <1>4, <2>1 DEF PInv, StaysWhereItBegan, DesktopKnowsMode
    <2>4. ToolRestored' /\ StrokeKnown'
      BY <1>1, <2>1 DEF PInv, ToolRestored, StrokeKnown
    <2> QED BY <2>2, <2>3, <2>4 DEF PInv
  <1> QED BY <1>3, <1>4

LEMMA PagesDrawnKnown ==
    ASSUME PInv, NEW pages \in SUBSET PdfPages, PagesDrawn(pages)
    PROVE  PInv'
  <1>1. /\ viewer' = [viewer EXCEPT !.drawn = pages]
        /\ UNCHANGED <<pen, press, kept, window, chosen>>
    BY DEF PagesDrawn
  <1>2. /\ viewer' \in Viewers /\ viewer'.active = viewer.active /\ viewer'.laidOut = viewer.laidOut
        /\ viewer'.toolbar = viewer.toolbar /\ viewer'.tool = viewer.tool
    BY <1>1 DEF PInv, PointerTypeOK, Viewers
  <1>3. PointerTypeOK' /\ PauseKnown' /\ ChosenTyped'
    BY <1>1, <1>2 DEF PInv, PointerTypeOK, Viewers, PauseKnown, ChosenTyped
  <1>4. StaysWhereItBegan' /\ DesktopKnowsMode' /\ ToolRestored' /\ StrokeKnown'
    BY <1>1, <1>2 DEF PInv, StaysWhereItBegan, ActiveToolbar, DesktopKnowsMode, ToolRestored, StrokeKnown
  <1> QED BY <1>3, <1>4 DEF PInv

LEMMA InViewKnown ==
    ASSUME PInv, NEW shown \in BOOLEAN, InView(shown)
    PROVE  PInv'
  <1>1. /\ UNCHANGED <<viewer, pen, press, kept, chosen>>
        /\ window' = [inView |-> shown,
                      told |-> IF ~shown THEN "inactive"
                               ELSE IF ActiveToolbar(viewer) = "unknown" THEN window.told
                               ELSE StylusMode(ActiveToolbar(viewer))]
    BY DEF InView
  <1>2. PointerTypeOK'
    BY <1>1 DEF PInv, PointerTypeOK, StylusMode
  <1>3. DesktopKnowsMode'
    BY <1>1, PointerAssumption DEF PInv, PointerTypeOK, Toolbars, DesktopKnowsMode, ActiveToolbar
  <1> QED BY <1>1, <1>2, <1>3 DEF PInv, ChosenTyped, StaysWhereItBegan, ActiveToolbar, ToolRestored,
                                  StrokeKnown, PauseKnown

LEMMA KeptKnown ==
    ASSUME PInv, kept' \subseteq kept, UNCHANGED <<viewer, pen, press, window, chosen>>
    PROVE  PInv'
  BY DEF PInv, PointerTypeOK, ChosenTyped, StaysWhereItBegan, ActiveToolbar, ToolRestored, StrokeKnown,
         PauseKnown, DesktopKnowsMode

LEMMA PointerStep == ASSUME PInv, [PointerNext]_pointerVars PROVE PInv'
  <1>1. ASSUME NEW at \in Points, NEW b \in BOOLEAN, Pressed(at, b) \/ Released(at, b) PROVE PInv'
    BY <1>1, PressedKnown, ReleasedKnown
  <1>2. ASSUME NEW to \in Points, EraserMoved(to) PROVE PInv'
    BY <1>2, EraserMovedKnown
  <1>3. CASE SecondaryPressed \/ SecondaryReleased
    BY <1>3, ButtonsKnown
  <1>4. CASE Blur
    BY <1>4, BlurKnown
  <1>5. ASSUME NEW t \in Tools \cup {None}, PickTool(t) PROVE PInv'
    BY <1>5, PickToolKnown
  <1>6. ASSUME NEW t \in Toolbars, ToolbarChanged(t) PROVE PInv'
    BY <1>6, ToolbarChangedKnown
  <1>7. ASSUME NEW d \in Docs, Activated(d) \/ LaidOutFirst(d) PROVE PInv'
    BY <1>7, ActivatedKnown, LaidOutKnown
  <1>8. ASSUME NEW b \in BOOLEAN, InView(b) PROVE PInv'
    BY <1>8, InViewKnown
  <1>9. ASSUME NEW selected \in SUBSET kept, DeleteKey(selected) PROVE PInv'
    BY <1>9, KeptKnown DEF DeleteKey
  <1>10. CASE UNCHANGED pointerVars
    BY <1>10, KeptKnown DEF pointerVars
  <1>11. ASSUME NEW pages \in SUBSET PdfPages, PagesDrawn(pages) PROVE PInv'
    BY <1>11, PagesDrawnKnown
  <1> QED BY <1>1, <1>2, <1>3, <1>4, <1>5, <1>6, <1>7, <1>8, <1>9, <1>10, <1>11 DEF PointerNext

\* What a stroke, an erasure or a secondary press sets up ends with it (pointerInput.ts, viewer.ts):
\* a stroke that ends in the PDF it began in gives its tool back, nothing goes on in another PDF
\* laid out or another mode, EmbedPDF resumes, and the desktop shell has been told the mode.
THEOREM PointerSettlesAlways == PointerInit /\ [][PointerNext]_pointerVars => []PointerSettles
  <1>1. PInv => PointerSettles
    BY DEF PInv, PauseKnown, ResumesOnRelease, PointerSettles
  <1> QED BY <1>1, PointerInitial, PointerStep, PTL


-----------------------------------------------------------------------------
(* The eraser's geometry: the clipping of a movement by an annotation's box     *)
(* finds it exactly when a point of the way is in the box.                      *)

\* A bound n/d on how far along the way is a pair; t steps of s along the way are past a bound the
\* way enters at, and before one it leaves at; and the one bound may lie before the other.
Bound(e) == e[1] \in Int /\ e[2] \in Int /\ 0 < e[2]
Past(s, t, e) == s * e[1] <= t * e[2]
Before(s, t, l) == t * l[2] <= s * l[1]
Meet(e, l) == e[1] * l[2] <= l[1] * e[2]
Steps(s) == s \in Int /\ 0 < s

\* Two bounds meet when some place lies between them.
LEMMA BoundsMeet ==
    ASSUME NEW s, Steps(s), NEW t \in Int, NEW e, Bound(e), NEW l, Bound(l), Past(s, t, e), Before(s, t, l)
    PROVE  Meet(e, l)
<1> DEFINE e1 == e[1]  e2 == e[2]  l1 == l[1]  l2 == l[2]
<1>1. /\ e1 \in Int /\ e2 \in Int /\ l1 \in Int /\ l2 \in Int /\ s \in Int /\ 0 < s /\ 0 < e2 /\ 0 < l2
      /\ s * e1 <= t * e2 /\ t * l2 <= s * l1
  BY DEF Bound, Past, Before, Steps
<1> HIDE DEF e1, e2, l1, l2
<1>2. (s * e1) * l2 <= (t * e2) * l2 BY <1>1
<1>3. (t * l2) * e2 <= (s * l1) * e2 BY <1>1
<1>4. (e1 * l2) * s <= (l1 * e2) * s BY <1>1, <1>2, <1>3
<1>5. e1 * l2 <= l1 * e2 BY <1>1, <1>4
<1> QED BY <1>5 DEF Meet, e1, e2, l1, l2

\* And a place at the one is not past the other.
LEMMA PlaceBefore ==
    ASSUME NEW s, Steps(s), NEW k \in Int, NEW e, Bound(e), NEW l, Bound(l), k * e[2] = s * e[1], Meet(e, l)
    PROVE  Before(s, k, l)
<1> DEFINE e1 == e[1]  e2 == e[2]  l1 == l[1]  l2 == l[2]
<1>1. /\ e1 \in Int /\ e2 \in Int /\ l1 \in Int /\ l2 \in Int /\ s \in Int /\ 0 < s /\ 0 < e2 /\ 0 < l2
      /\ k * e2 = s * e1 /\ e1 * l2 <= l1 * e2
  BY DEF Bound, Meet, Steps
<1> HIDE DEF e1, e2, l1, l2
<1>2. s * (e1 * l2) <= s * (l1 * e2) BY <1>1
<1>3. (k * l2) * e2 <= (s * l1) * e2 BY <1>1, <1>2
<1>4. k * l2 <= s * l1 BY <1>1, <1>3
<1> QED BY <1>4 DEF Before, e1, e2, l1, l2

\* Where a movement by d enters, and leaves, the part between lo and hi of its axis.
Enter(lo, hi, d) == IF d > 0 THEN <<lo, d>> ELSE <<-hi, -d>>
Leave(lo, hi, d) == IF d > 0 THEN <<hi, d>> ELSE <<-lo, -d>>

\* A place is between them when its coordinate is.
Between(s, t, lo, hi, d) == s * lo <= t * d /\ t * d <= s * hi
Moving(lo, hi, d) == lo \in Int /\ hi \in Int /\ d \in Int /\ d # 0

LEMMA BetweenIsWithin ==
    ASSUME NEW s \in Int, NEW t \in Int, NEW lo, NEW hi, NEW d, Moving(lo, hi, d)
    PROVE  Past(s, t, Enter(lo, hi, d)) /\ Before(s, t, Leave(lo, hi, d)) <=> Between(s, t, lo, hi, d)
<1> USE DEF Past, Before, Between, Moving
<1>1. CASE d > 0 BY <1>1 DEF Enter, Leave
<1>2. CASE d < 0
  <2>1. t * (-d) = -(t * d) /\ s * (-lo) = -(s * lo) /\ s * (-hi) = -(s * hi) OBVIOUS
  <2>2. s * (-hi) <= t * (-d) <=> t * d <= s * hi BY <2>1
  <2>3. t * (-d) <= s * (-lo) <=> s * lo <= t * d BY <2>1
  <2>4. /\ Enter(lo, hi, d)[1] = -hi /\ Enter(lo, hi, d)[2] = -d
        /\ Leave(lo, hi, d)[1] = -lo /\ Leave(lo, hi, d)[2] = -d
    BY <1>2 DEF Enter, Leave
  <2> QED BY <2>2, <2>3, <2>4
<1> QED BY <1>1, <1>2

LEMMA AxisBounds ==
    ASSUME NEW lo, NEW hi, NEW d, Moving(lo, hi, d)
    PROVE  Bound(Enter(lo, hi, d)) /\ Bound(Leave(lo, hi, d))
<1>1. CASE d > 0 BY <1>1 DEF Enter, Leave, Bound, Moving
<1>2. CASE d < 0 BY <1>2 DEF Enter, Leave, Bound, Moving
<1> QED BY <1>1, <1>2 DEF Moving

\* Where the way enters the box by an axis is a whole number of steps from its start.
AtAPlace(s, e) == \E k \in Int : k * e[2] = s * e[1]

LEMMA EntersAtAPlace ==
    ASSUME NEW s, Steps(s), NEW lo, NEW hi, NEW d, Moving(lo, hi, d), NEW n \in Int, n * d = s
    PROVE  AtAPlace(s, Enter(lo, hi, d))
<1> USE DEF Steps, Moving
<1>1. CASE d > 0
  <2>1. (n * lo) * d = (n * d) * lo OBVIOUS
  <2>2. (n * lo) * d = s * lo /\ n * lo \in Int BY <2>1
  <2> QED BY <1>1, <2>2 DEF Enter, AtAPlace
<1>2. CASE d < 0
  <2>1. (n * hi) * (-d) = (n * d) * (-hi) OBVIOUS
  <2>2. (n * hi) * (-d) = s * (-hi) /\ n * hi \in Int BY <2>1
  <2>3. Enter(lo, hi, d)[1] = -hi /\ Enter(lo, hi, d)[2] = -d BY <1>2 DEF Enter
  <2>4. (n * hi) * Enter(lo, hi, d)[2] = s * Enter(lo, hi, d)[1] BY <2>2, <2>3
  <2> QED BY <2>2, <2>4 DEF AtAPlace
<1> QED BY <1>1, <1>2

\* Every way starts before its first step and is left after its last.
Outset == <<0, 1>>
End == <<1, 1>>
LEMMA WholeWay ==
    ASSUME NEW s, Steps(s), NEW t \in Int
    PROVE  /\ Bound(Outset) /\ Bound(End) /\ 0 * Outset[2] = s * Outset[1]
           /\ Past(s, t, Outset) /\ Before(s, t, End) <=> t \in 0..s
BY DEF Outset, End, Bound, Past, Before, Steps

\* The clipping, by what the code computes for each axis: it may stand still in one or both.
Axes == {1, 2}
Axis(s, lo, hi, d) == lo \in Int /\ hi \in Int /\ d \in Int /\ (d = 0 \/ \E n \in Int : n * d = s)
Clips(s, lo, hi, d, enters, leaves) ==
    /\ Steps(s) /\ \A i \in Axes : Axis(s, lo[i], hi[i], d[i])
    /\ Outset \in enters /\ End \in leaves
    /\ \A i \in Axes : d[i] # 0 => Enter(lo[i], hi[i], d[i]) \in enters /\ Leave(lo[i], hi[i], d[i]) \in leaves
    /\ \A e \in enters : e = Outset \/ \E i \in Axes : d[i] # 0 /\ e = Enter(lo[i], hi[i], d[i])
    /\ \A l \in leaves : l = End \/ \E i \in Axes : d[i] # 0 /\ l = Leave(lo[i], hi[i], d[i])
Clipped(lo, hi, d, enters, leaves) ==
    /\ \A i \in Axes : d[i] = 0 => lo[i] <= 0 /\ hi[i] >= 0
    /\ \A e \in enters, l \in leaves : Meet(e, l)
Passes(s, t, lo, hi, d) == t \in 0..s /\ \A i \in Axes : Between(s, t, lo[i], hi[i], d[i])

LEMMA StillBetween ==
    ASSUME NEW s, Steps(s), NEW t \in Int, NEW lo \in Int, NEW hi \in Int, NEW d, d = 0
    PROVE  Between(s, t, lo, hi, d) <=> lo <= 0 /\ hi >= 0
<1>1. t * d = 0 OBVIOUS
<1>2. (lo <= 0 <=> s * lo <= 0) /\ (hi >= 0 <=> 0 <= s * hi) BY DEF Steps
<1> QED BY <1>1, <1>2 DEF Between

\* A place is passed in the box when it is past all bounds the way enters at and before all it leaves at.
LEMMA PassesBounds ==
    ASSUME NEW s, NEW lo, NEW hi, NEW d, NEW enters, NEW leaves, Clips(s, lo, hi, d, enters, leaves), NEW t \in Int
    PROVE  Passes(s, t, lo, hi, d) <=> /\ \A i \in Axes : d[i] = 0 => lo[i] <= 0 /\ hi[i] >= 0
                                       /\ \A e \in enters : Past(s, t, e)
                                       /\ \A l \in leaves : Before(s, t, l)
<1>1. Steps(s) /\ s \in Int BY DEF Clips, Steps
<1>2. \A i \in Axes : d[i] # 0 => Moving(lo[i], hi[i], d[i]) BY DEF Clips, Axis, Moving
<1>3. ASSUME NEW i \in Axes, d[i] # 0
      PROVE  Past(s, t, Enter(lo[i], hi[i], d[i])) /\ Before(s, t, Leave(lo[i], hi[i], d[i]))
             <=> Between(s, t, lo[i], hi[i], d[i])
  BY <1>1, <1>2, <1>3, BetweenIsWithin
<1>4. ASSUME NEW i \in Axes, d[i] = 0
      PROVE  Between(s, t, lo[i], hi[i], d[i]) <=> lo[i] <= 0 /\ hi[i] >= 0
  <2>1. lo[i] \in Int /\ hi[i] \in Int BY DEF Clips, Axis
  <2> QED BY <1>1, <1>4, <2>1, StillBetween
<1>5. Past(s, t, Outset) /\ Before(s, t, End) <=> t \in 0..s BY <1>1, WholeWay
<1>6. (\A e \in enters : Past(s, t, e))
      <=> Past(s, t, Outset) /\ \A i \in Axes : d[i] # 0 => Past(s, t, Enter(lo[i], hi[i], d[i]))
  BY DEF Clips
<1>7. (\A l \in leaves : Before(s, t, l))
      <=> Before(s, t, End) /\ \A i \in Axes : d[i] # 0 => Before(s, t, Leave(lo[i], hi[i], d[i]))
  BY DEF Clips
<1> QED BY <1>3, <1>4, <1>5, <1>6, <1>7 DEF Passes

LEMMA ClipBounds ==
    ASSUME NEW s, NEW lo, NEW hi, NEW d, NEW enters, NEW leaves, Clips(s, lo, hi, d, enters, leaves)
    PROVE  /\ \A e \in enters : Bound(e) /\ AtAPlace(s, e)
           /\ \A l \in leaves : Bound(l)
<1>1. Steps(s) BY DEF Clips
<1>2. ASSUME NEW i \in Axes, d[i] # 0
      PROVE  /\ Bound(Enter(lo[i], hi[i], d[i])) /\ Bound(Leave(lo[i], hi[i], d[i]))
             /\ AtAPlace(s, Enter(lo[i], hi[i], d[i]))
  <2>1. Moving(lo[i], hi[i], d[i]) BY <1>2 DEF Clips, Axis, Moving
  <2>2. PICK n \in Int : n * d[i] = s BY <1>2 DEF Clips, Axis
  <2> QED BY <1>1, <2>1, <2>2, AxisBounds, EntersAtAPlace
<1>3. Bound(Outset) /\ Bound(End) /\ AtAPlace(s, Outset)
  <2>1. 0 \in Int OBVIOUS
  <2>2. Bound(Outset) /\ Bound(End) /\ 0 * Outset[2] = s * Outset[1] BY <1>1, <2>1, WholeWay
  <2> QED BY <2>1, <2>2 DEF AtAPlace
<1> QED BY <1>2, <1>3 DEF Clips

\* What is passed is found.
LEMMA PassedIsClipped ==
    ASSUME NEW s, NEW lo, NEW hi, NEW d, NEW enters, NEW leaves, Clips(s, lo, hi, d, enters, leaves),
           NEW t, Passes(s, t, lo, hi, d)
    PROVE  Clipped(lo, hi, d, enters, leaves)
<1>1. Steps(s) /\ t \in Int BY DEF Clips, Passes, Steps
<1>2. /\ \A i \in Axes : d[i] = 0 => lo[i] <= 0 /\ hi[i] >= 0
      /\ \A e \in enters : Past(s, t, e)
      /\ \A l \in leaves : Before(s, t, l)
  BY <1>1, PassesBounds
<1>3. ASSUME NEW e \in enters, NEW l \in leaves PROVE Meet(e, l)
  <2>1. Bound(e) /\ Bound(l) /\ Past(s, t, e) /\ Before(s, t, l) BY <1>2, ClipBounds
  <2> QED BY <1>1, <2>1, BoundsMeet
<1> QED BY <1>2, <1>3 DEF Clipped

\* What is found is passed: where the way enters last.
LEMMA ClippedIsPassed ==
    ASSUME NEW s, NEW lo, NEW hi, NEW d, NEW enters, NEW leaves, Clips(s, lo, hi, d, enters, leaves),
           Clipped(lo, hi, d, enters, leaves)
    PROVE  \E t \in Int : Passes(s, t, lo, hi, d)
<1> DEFINE at(e, k) == e \in enters /\ k \in Int /\ k * e[2] = s * e[1]
<1>1. Steps(s) /\ s \in Int BY DEF Clips, Steps
<1>2. at(Outset, 0)
  <2>1. 0 \in Int /\ Outset \in enters BY DEF Clips
  <2> QED BY <1>1, <2>1, WholeWay
<1>3. ASSUME NEW i \in Axes
      PROVE  \E e, k : at(e, k) /\ (d[i] # 0 => e = Enter(lo[i], hi[i], d[i]))
  <2>1. CASE d[i] = 0 BY <1>2, <2>1
  <2>2. CASE d[i] # 0
    <3>1. Enter(lo[i], hi[i], d[i]) \in enters BY <2>2 DEF Clips
    <3>2. AtAPlace(s, Enter(lo[i], hi[i], d[i])) BY <3>1, ClipBounds
    <3> QED BY <3>1, <3>2 DEF AtAPlace
  <2> QED BY <2>1, <2>2
<1>4. 1 \in Axes /\ 2 \in Axes BY DEF Axes
<1>5. PICK e1, k1 : at(e1, k1) /\ (d[1] # 0 => e1 = Enter(lo[1], hi[1], d[1])) BY <1>3, <1>4
<1>6. PICK e2, k2 : at(e2, k2) /\ (d[2] # 0 => e2 = Enter(lo[2], hi[2], d[2])) BY <1>3, <1>4
<1>7. \A e \in enters : e = Outset \/ e = e1 \/ e = e2 BY <1>5, <1>6 DEF Clips, Axes
<1>8. k1 \in Int /\ k2 \in Int BY <1>5, <1>6
<1> HIDE DEF at
<1>9. PICK e, t : at(e, t) /\ t \in Int /\ 0 <= t /\ k1 <= t /\ k2 <= t
  <2>1. CASE k1 <= 0 /\ k2 <= 0 BY <1>2, <2>1
  <2>2. CASE 0 <= k1 /\ k2 <= k1 BY <1>5, <1>8, <2>2
  <2>3. CASE 0 <= k2 /\ k1 <= k2 BY <1>6, <1>8, <2>3
  <2> QED BY <1>8, <2>1, <2>2, <2>3
<1>10. ASSUME NEW l \in leaves PROVE Before(s, t, l)
  <2>1. Bound(e) /\ Bound(l) /\ Meet(e, l) BY <1>9, ClipBounds DEF Clipped, at
  <2>2. t * e[2] = s * e[1] BY <1>9 DEF at
  <2> QED BY <1>1, <1>9, <2>1, <2>2, PlaceBefore
<1>11. ASSUME NEW f, NEW k \in Int, at(f, k), k <= t PROVE Past(s, t, f)
  <2>1. f[2] \in Int /\ 0 < f[2] /\ k * f[2] = s * f[1] BY <1>11, ClipBounds DEF at, Bound
  <2>2. k * f[2] <= t * f[2] BY <1>9, <1>11, <2>1
  <2> QED BY <2>1, <2>2 DEF Past
<1>12. ASSUME NEW f \in enters PROVE Past(s, t, f)
  <2>1. Past(s, t, Outset) BY <1>2, <1>9, <1>11
  <2>2. Past(s, t, e1) BY <1>5, <1>8, <1>9, <1>11
  <2>3. Past(s, t, e2) BY <1>6, <1>8, <1>9, <1>11
  <2> QED BY <1>7, <2>1, <2>2, <2>3
<1>13. Passes(s, t, lo, hi, d) BY <1>9, <1>10, <1>12, PassesBounds DEF Clipped
<1> QED BY <1>9, <1>13

\* The code's clipping of a movement by an annotation's box, widened by the nib, says whether a
\* point of the way is in it.
LEMMA CrossesIsTouched ==
    ASSUME NEW p \in Points, NEW q \in Points, NEW a \in Annotations
    PROVE  Crosses(p, q, a) <=> Touched(p, q, a)
<1> DEFINE box == [i \in {1, 2} |-> IF i = 1 THEN AnnotationOf[a].x ELSE AnnotationOf[a].y]
           d == [i \in {1, 2} |-> q[i] - p[i]]
           lo == [i \in {1, 2} |-> box[i][1] - Nib - p[i]]
           hi == [i \in {1, 2} |-> box[i][2] + Nib - p[i]]
           moving == {i \in {1, 2} : q[i] - p[i] # 0}
           entered(i) == IF q[i] - p[i] > 0 THEN <<box[i][1] - Nib - p[i], q[i] - p[i]>>
                         ELSE <<-(box[i][2] + Nib - p[i]), -(q[i] - p[i])>>
           left(i) == IF q[i] - p[i] > 0 THEN <<box[i][2] + Nib - p[i], q[i] - p[i]>>
                      ELSE <<-(box[i][1] - Nib - p[i]), -(q[i] - p[i])>>
           enters == {<<0, 1>>} \cup {entered(i) : i \in moving}
           leaves == {<<1, 1>>} \cup {left(i) : i \in moving}
<1>1. /\ Scale \in Int /\ 0 < Scale /\ Nib \in Int
      /\ p[1] \in Int /\ p[2] \in Int /\ q[1] \in Int /\ q[2] \in Int
      /\ AnnotationOf[a].x[1] \in Int /\ AnnotationOf[a].x[2] \in Int
      /\ AnnotationOf[a].y[1] \in Int /\ AnnotationOf[a].y[2] \in Int
  BY PointerAssumption
<1>2. \A i \in {1, 2} : d[i] \in Int /\ lo[i] \in Int /\ hi[i] \in Int BY <1>1
<1>3. ASSUME NEW i \in {1, 2} PROVE d[i] = 0 \/ \E n \in Int : n * d[i] = Scale
  <2>1. q[i] = p[i] \/ \E n \in -Scale..Scale : n * (q[i] - p[i]) = Scale BY PointerAssumption
  <2> QED BY <1>1, <2>1
<1>4. \A i \in {1, 2} : entered(i) = Enter(lo[i], hi[i], d[i]) /\ left(i) = Leave(lo[i], hi[i], d[i])
  BY DEF Enter, Leave
<1>5. \A i : i \in moving <=> i \in {1, 2} /\ d[i] # 0 OBVIOUS
<1>6. Crosses(p, q, a) <=> Clipped(lo, hi, d, enters, leaves)
  <2>1. Crosses(p, q, a) <=> /\ \A i \in {1, 2} \ moving : box[i][1] - Nib - p[i] <= 0 /\ box[i][2] + Nib - p[i] >= 0
                             /\ \A e \in enters, l \in leaves : e[1] * l[2] <= l[1] * e[2]
    BY DEF Crosses
  <2>2. (\A i \in {1, 2} \ moving : box[i][1] - Nib - p[i] <= 0 /\ box[i][2] + Nib - p[i] >= 0)
        <=> \A i \in Axes : d[i] = 0 => lo[i] <= 0 /\ hi[i] >= 0
    BY DEF Axes
  <2> HIDE DEF enters, leaves, lo, hi, d, moving
  <2> QED BY <2>1, <2>2 DEF Clipped, Meet
<1>7. Clips(Scale, lo, hi, d, enters, leaves)
  <2>1. Steps(Scale) BY <1>1 DEF Steps
  <2>2. Outset \in enters /\ End \in leaves BY DEF Outset, End
  <2>3. \A e \in enters : e = Outset \/ \E i \in moving : e = entered(i) BY DEF Outset
  <2>4. \A l \in leaves : l = End \/ \E i \in moving : l = left(i) BY DEF End
  <2>5. \A i \in moving : entered(i) \in enters /\ left(i) \in leaves OBVIOUS
  <2> HIDE DEF enters, leaves, moving, entered, left, lo, hi, d
  <2>6. \A i \in Axes : Axis(Scale, lo[i], hi[i], d[i]) BY <1>2, <1>3 DEF Axis, Axes
  <2>7. \A i \in Axes : d[i] # 0 => Enter(lo[i], hi[i], d[i]) \in enters /\ Leave(lo[i], hi[i], d[i]) \in leaves
    BY <1>4, <1>5, <2>5 DEF Axes
  <2>8. \A e \in enters : e = Outset \/ \E i \in Axes : d[i] # 0 /\ e = Enter(lo[i], hi[i], d[i])
    BY <1>4, <1>5, <2>3 DEF Axes
  <2>9. \A l \in leaves : l = End \/ \E i \in Axes : d[i] # 0 /\ l = Leave(lo[i], hi[i], d[i])
    BY <1>4, <1>5, <2>4 DEF Axes
  <2> QED BY <2>1, <2>2, <2>6, <2>7, <2>8, <2>9 DEF Clips
<1>8. Touched(p, q, a) <=> \E t \in 0..Scale : \A i \in {1, 2} : Between(Scale, t, lo[i], hi[i], d[i])
  <2>1. ASSUME NEW t \in 0..Scale, NEW i \in {1, 2}
        PROVE  LET side == IF i = 1 THEN AnnotationOf[a].x ELSE AnnotationOf[a].y
                   at == Scale * p[i] + t * (q[i] - p[i])
               IN  (at >= Scale * (side[1] - Nib) /\ at <= Scale * (side[2] + Nib))
                   <=> Between(Scale, t, lo[i], hi[i], d[i])
    <3>1. /\ p[i] \in Int /\ q[i] \in Int /\ box[i][1] \in Int /\ box[i][2] \in Int /\ t \in Int
      BY <1>1
    <3>2. Scale * lo[i] = Scale * (box[i][1] - Nib) - Scale * p[i] BY <1>1, <3>1
    <3>3. Scale * hi[i] = Scale * (box[i][2] + Nib) - Scale * p[i] BY <1>1, <3>1
    <3>4. /\ t * d[i] \in Int /\ Scale * p[i] \in Int /\ d[i] = q[i] - p[i]
          /\ Scale * (box[i][1] - Nib) \in Int /\ Scale * (box[i][2] + Nib) \in Int
      BY <1>1, <3>1
    <3> QED BY <3>2, <3>3, <3>4 DEF Between
  <2> QED BY <2>1 DEF Touched
<1> HIDE DEF enters, leaves, lo, hi, d
<1>9. Clipped(lo, hi, d, enters, leaves) <=> \E t \in Int : Passes(Scale, t, lo, hi, d)
  BY <1>7, PassedIsClipped, ClippedIsPassed
<1>10. (\E t \in Int : Passes(Scale, t, lo, hi, d))
       <=> \E t \in 0..Scale : \A i \in {1, 2} : Between(Scale, t, lo[i], hi[i], d[i])
  BY <1>1 DEF Passes, Axes
<1> QED BY <1>6, <1>8, <1>9, <1>10

-----------------------------------------------------------------------------
(* The eraser.                                                                  *)

\* A movement deletes what it may on its way, and nothing else.
LEMMA MovementErases ==
    ASSUME PInv, NEW p \in Points, NEW q \in Points, kept' = kept \ EraseBetween(viewer, p, q)
    PROVE  \A a \in kept : a \notin kept' <=> Reached(viewer, a) /\ Touched(p, q, a)
<1>1. kept \subseteq Annotations BY DEF PInv, PointerTypeOK
<1>2. \A a \in kept : Crosses(p, q, a) <=> Touched(p, q, a) BY <1>1, CrossesIsTouched
<1> QED BY <1>2 DEF EraseBetween

\* A step that does not move the eraser, nor deletes by the key, deletes nothing while it is down.
LEMMA StandingTouched ==
    ASSUME pen.last = None \/ pen'.last = None \/ (pen'.last = pen.last /\ kept' = kept)
    PROVE  ErasesTouched
BY DEF ErasesTouched

LEMMA EraserStep ==
    ASSUME PInv, [PointerNext]_pointerVars
    PROVE  ErasesTouched
<1>1. pen.last \in Points \cup {None} BY DEF PInv, PointerTypeOK
<1>2. Idle.last = None BY DEF Idle
<1>3. ASSUME NEW at \in Points, NEW b \in BOOLEAN, Pressed(at, b) PROVE ErasesTouched
  BY <1>3, StandingTouched DEF Pressed
<1>4. ASSUME NEW to \in Points, EraserMoved(to) PROVE ErasesTouched
  <2>1. pen.last \in Points /\ kept' = kept \ EraseBetween(viewer, pen.last, to) /\ pen'.last = to
    BY <1>1, <1>4 DEF EraserMoved, PInv, PointerTypeOK
  <2>2. \A a \in kept : a \notin kept' <=> Reached(viewer, a) /\ Touched(pen.last, to, a)
    BY <2>1, MovementErases
  <2> QED BY <2>1, <2>2 DEF ErasesTouched
<1>5. ASSUME NEW to \in Points, NEW b \in BOOLEAN, Released(to, b) PROVE ErasesTouched
  BY <1>2, <1>5, StandingTouched DEF Released, LostFocus
<1>6. CASE SecondaryPressed \/ SecondaryReleased \/ UNCHANGED pointerVars \/ \E b \in BOOLEAN : InView(b)
  <2>1. UNCHANGED <<pen, kept>> BY <1>6 DEF SecondaryPressed, SecondaryReleased, pointerVars, InView
  <2> QED BY <2>1, StandingTouched
<1>7. CASE Blur BY <1>2, <1>7, StandingTouched DEF Blur, LostFocus
<1>8. ASSUME NEW t \in Tools \cup {None}, PickTool(t) PROVE ErasesTouched
  BY <1>8, StandingTouched DEF PickTool
<1>9. ASSUME NEW t \in Toolbars, ToolbarChanged(t) PROVE ErasesTouched
  BY <1>2, <1>9, StandingTouched DEF ToolbarChanged, UpdateStylusMode, LostFocus
<1>10. ASSUME NEW d \in Docs, LaidOutFirst(d) PROVE ErasesTouched
  BY <1>2, <1>10, StandingTouched DEF LaidOutFirst, UpdateStylusMode, LostFocus
<1>11. ASSUME NEW d \in Docs, Activated(d) PROVE ErasesTouched
  <2>1. CASE d \in viewer.laidOut
    BY <1>2, <1>11, <2>1, StandingTouched DEF Activated, UpdateStylusMode, LostFocus
  <2>2. CASE d \notin viewer.laidOut
    BY <1>11, <2>2, StandingTouched DEF Activated
  <2> QED BY <2>1, <2>2
<1>12. ASSUME NEW pages \in SUBSET PdfPages, PagesDrawn(pages) PROVE ErasesTouched
  BY <1>12, StandingTouched DEF PagesDrawn
<1>13. ASSUME NEW selected \in SUBSET kept, DeleteKey(selected) PROVE ErasesTouched
  BY <1>13 DEF ErasesTouched
<1> QED BY <1>3, <1>4, <1>5, <1>6, <1>7, <1>8, <1>9, <1>10, <1>11, <1>12, <1>13 DEF PointerNext

\* Each movement of the eraser deletes what its way touches on the pages drawn at that moment, all of it
\* and nothing else (pointerInput.ts:289-316), for any boxes, any nib and any places; while no page
\* is drawn it deletes nothing, and what it passes then it does not come back to.
THEOREM EraserExactHolds == PointerInit /\ [][PointerNext]_pointerVars => EraserExact
<1>1. PointerInit => PInv BY PointerInitial
<1>2. PInv /\ [PointerNext]_pointerVars => PInv' BY PointerStep
<1>3. PInv /\ [PointerNext]_pointerVars => [ErasesTouched]_pointerVars BY EraserStep
<1> QED BY <1>1, <1>2, <1>3, PTL DEF EraserExact

-----------------------------------------------------------------------------
(* The reading session.                                                         *)

\* How much of the stretch that goes on was read, which may be nothing: the page
\* can turn by itself before the user is back.
Lasted == IF StretchTime(session) > 0 THEN StretchTime(session) ELSE 0

\* What the session has read and will have read of each page is on the screen's account, and
\* while the reader is shown its stretch is the present run on the screen's page.
SessionInv ==
    /\ session.lastInput <= clock
    /\ session.stretch.page # 0 => session.stretch.since <= clock
    /\ session.open => session.stretch.page = IF screen.shown THEN screen.page ELSE 0
    /\ session.open /\ screen.shown => truth.run = Lasted
    /\ \A p \in SessionPages :
          session.read[p] + (IF session.stretch.page = p THEN Lasted ELSE 0) <= truth.read[p]
    /\ \A p \in SessionPages : reported[p] <= truth.read[p] /\ \A r \in posts : r[p] <= truth.read[p]

IInv == SessionTypeOK /\ SessionInv

----------------------------------------------------------------------------
(* What the operations of a session return.                                     *)

LEMMA StretchTyped ==
    ASSUME SessionTypeOK
    PROVE  ReadingUntil(session) \in Nat /\ StretchTime(session) \in Int /\ Lasted \in Nat
BY SessionAssumption DEF SessionTypeOK, ReadingUntil, Least, StretchTime, Lasted

\* A report names at least what was read before the stretch, and no more than was read.
LEMMA ReportBounds ==
    ASSUME IInv
    PROVE  /\ Report(session) \in Times
           /\ \A p \in SessionPages : /\ Report(session)[p] >= session.read[p]
                                      /\ Report(session)[p] <= truth.read[p]
<1> USE SessionAssumption DEF IInv
<1> SUFFICES ASSUME NEW p \in SessionPages
             PROVE  /\ Report(session)[p] \in Nat
                    /\ Report(session)[p] >= session.read[p] /\ Report(session)[p] <= truth.read[p]
  BY DEF Report, Times
<1>1. session.read[p] \in Nat /\ truth.read[p] \in Nat BY DEF SessionTypeOK, Times
<1>2. Report(session)[p] = session.read[p]
          + IF Counts(session) /\ session.stretch.page = p THEN StretchTime(session) ELSE 0
  BY DEF Report
<1>3. Counts(session) => StretchTime(session) = Lasted /\ Lasted > 0
  BY StretchTyped DEF Counts, Lasted
<1> QED BY <1>1, <1>2, <1>3, StretchTyped DEF SessionInv

\* A session that starts a stretch reports what the one before would have reported.
LEMMA StartKeeps ==
    ASSUME IInv, NEW page \in SessionPages, NEW shown \in BOOLEAN
    PROVE  Report(Start(session, page, shown)) = Report(session)
<1> USE SessionAssumption DEF IInv
<1> DEFINE s == Start(session, page, shown)
<1>1. s = [session EXCEPT !.read = Report(session),
                          !.stretch = IF shown THEN [page |-> page, since |-> clock] ELSE NoStretch]
  BY DEF SessionTypeOK, Start, EndStretch
<1>2. s.read = Report(session) /\ s.lastInput = session.lastInput
      /\ s.stretch = IF shown THEN [page |-> page, since |-> clock] ELSE NoStretch
  BY <1>1 DEF SessionTypeOK
<1>3. ~Counts(s)
  BY <1>2 DEF SessionTypeOK, Counts, StretchTime, ReadingUntil, Least, NoStretch
<1>4. ASSUME NEW p \in SessionPages PROVE Report(s)[p] = Report(session)[p]
  BY <1>2, <1>3, ReportBounds DEF Report, Times
<1>5. Report(s) \in [SessionPages -> Nat]
  BY <1>4, ReportBounds DEF Report, Times
<1> QED BY <1>4, <1>5, ReportBounds DEF Times

\* A session that ends its stretch starts none.
LEMMA EndKeeps == ASSUME IInv PROVE EndStretch(session) = Start(session, screen.page, FALSE)
BY DEF IInv, SessionTypeOK, EndStretch, Start, NoStretch

\* A report that names no more than was read leaves only such reports under way.
LEMMA SendKeeps ==
    ASSUME IInv, NEW s, Send(s), Report(s) \in Times,
           \A p \in SessionPages : Report(s)[p] <= truth.read[p]
    PROVE  /\ session' = s /\ posts' \subseteq Times
           /\ \A p \in SessionPages, r \in posts' : r[p] <= truth.read[p]
BY DEF IInv, SessionTypeOK, SessionInv, Send

----------------------------------------------------------------------------
(* Each step keeps the invariant.                                               *)

\* A new stretch, or none, as the page turns or the reader is hidden and shown: the run on the
\* screen is a new one.
LEMMA StartInductive ==
    ASSUME IInv, NEW page \in SessionPages, NEW shown \in BOOLEAN, session.open,
           session' = Start(session, page, shown),
           screen' = [page |-> page, shown |-> shown], clock' = clock,
           truth' = [truth EXCEPT !.run = 0], reported' = reported,
           posts' \subseteq Times, \A p \in SessionPages, r \in posts' : r[p] <= truth.read[p]
    PROVE  IInv'
<1>0. Start(session, page, shown) =
          [session EXCEPT !.read = Report(session),
                          !.stretch = IF shown THEN [page |-> page, since |-> clock] ELSE NoStretch]
  BY DEF IInv, SessionTypeOK, Start, EndStretch
<1> USE SessionAssumption DEF IInv
<1>1. /\ session'.read = Report(session) /\ session'.lastInput = session.lastInput
      /\ session'.open = session.open
      /\ session'.stretch = (IF shown THEN [page |-> page, since |-> clock] ELSE NoStretch)
      /\ session' \in [read : Times, lastInput : Nat, open : BOOLEAN,
                       stretch : [page : SessionPages \cup {0}, since : Nat]]
  <2> DEFINE new == IF shown THEN [page |-> page, since |-> clock] ELSE NoStretch
  <2>1. session' = [session EXCEPT !.read = Report(session), !.stretch = new]
    BY <1>0
  <2>2. new \in [page : SessionPages \cup {0}, since : Nat] BY DEF SessionTypeOK, NoStretch
  <2>3. Report(session) \in Times BY ReportBounds
  <2> HIDE DEF new
  <2>4. /\ session'.read = Report(session) /\ session'.lastInput = session.lastInput
        /\ session'.open = session.open /\ session'.stretch = new
        /\ session' \in [read : Times, lastInput : Nat, open : BOOLEAN,
                         stretch : [page : SessionPages \cup {0}, since : Nat]]
    BY <2>1, <2>2, <2>3 DEF SessionTypeOK
  <2> QED BY <2>4 DEF new
<1>2. /\ truth'.run = 0 /\ truth'.read = truth.read
      /\ truth' \in [read : Times, run : Nat] /\ screen' \in [page : SessionPages, shown : BOOLEAN]
      /\ screen'.page = page /\ screen'.shown = shown
  BY DEF SessionTypeOK
<1>3. Lasted' = 0
  BY <1>1 DEF Lasted, StretchTime, ReadingUntil, Least, SessionTypeOK, NoStretch
<1>4. ASSUME NEW p \in SessionPages
      PROVE  session'.read[p] + (IF session'.stretch.page = p THEN Lasted' ELSE 0) <= truth'.read[p]
  <2>1. session'.read[p] \in Nat /\ truth.read[p] \in Nat BY <1>1 DEF SessionTypeOK, Times
  <2>2. session'.read[p] <= truth.read[p] BY <1>1, ReportBounds
  <2> QED BY <1>2, <1>3, <2>1, <2>2
<1>5. SessionTypeOK' BY <1>1, <1>2 DEF SessionTypeOK
<1>6. SessionInv'
  <2>1. /\ session'.lastInput <= clock'
        /\ session'.stretch.page # 0 => session'.stretch.since <= clock'
        /\ session'.open => session'.stretch.page = IF screen'.shown THEN screen'.page ELSE 0
    BY <1>1, <1>2 DEF SessionTypeOK, SessionInv, NoStretch
  <2>2. \A p \in SessionPages : reported'[p] <= truth'.read[p] /\ \A r \in posts' : r[p] <= truth'.read[p]
    BY <1>2 DEF SessionInv
  <2> QED BY <1>2, <1>3, <1>4, <2>1, <2>2 DEF SessionInv
<1> QED BY <1>5, <1>6

\* An input ends an idle stretch and starts a new one, or lets the stretch go on, which ends
\* no earlier than now.
LEMMA InputInductive == ASSUME IInv, Input PROVE IInv' /\ Report(session)' = Report(session)
<1> USE SessionAssumption DEF IInv
<1> DEFINE idle == clock - session.lastInput > IdleTime
           s == [(IF idle THEN EndStretch(session) ELSE session) EXCEPT !.lastInput = clock]
<1>1. /\ session' = IF idle THEN Start(s, screen.page, TRUE) ELSE s
      /\ truth' = IF idle THEN [truth EXCEPT !.run = 0] ELSE truth
      /\ UNCHANGED <<clock, screen, posts, reported>> /\ screen.shown /\ session.open
  BY DEF Input
<1>2. CASE idle
  <2>1. s = [session EXCEPT !.read = Report(session), !.stretch = NoStretch, !.lastInput = clock]
    BY <1>2 DEF SessionTypeOK, EndStretch
  <2>2. /\ s.read = Report(session) /\ s.stretch = NoStretch /\ s.lastInput = clock /\ s.open
        /\ s \in [read : Times, lastInput : Nat, open : BOOLEAN,
                  stretch : [page : SessionPages \cup {0}, since : Nat]]
    <3>1. NoStretch \in [page : SessionPages \cup {0}, since : Nat] BY DEF NoStretch
    <3>2. Report(session) \in Times BY ReportBounds
    <3> QED BY <1>1, <2>1, <3>1, <3>2 DEF SessionTypeOK
  <2>3. Report(s) = Report(session)
    <3>1. ~Counts(s) BY <2>2 DEF Counts, NoStretch
    <3> QED BY <2>2, <3>1, ReportBounds DEF Report, Times
  <2>4. session' = [s EXCEPT !.read = Report(s), !.stretch = [page |-> screen.page, since |-> clock]]
    BY <1>1, <1>2, <2>2 DEF Start, EndStretch
  <2>5. /\ session'.read = Report(session) /\ session'.lastInput = clock /\ session'.open
        /\ session'.stretch = [page |-> screen.page, since |-> clock]
        /\ session' \in [read : Times, lastInput : Nat, open : BOOLEAN,
                         stretch : [page : SessionPages \cup {0}, since : Nat]]
    BY <2>2, <2>3, <2>4, ReportBounds DEF SessionTypeOK
  <2>6. StretchTime(session)' = 0 /\ Lasted' = 0 /\ ~Counts(session)'
    <3>1. clock \in Nat /\ clock' = clock BY <1>1 DEF SessionTypeOK
    <3>2. session'.stretch.since = clock BY <2>5
    <3>3. ReadingUntil(session)' = clock BY <2>5, <3>1 DEF ReadingUntil, Least
    <3>4. StretchTime(session)' = 0 BY <3>1, <3>2, <3>3 DEF StretchTime
    <3> QED BY <3>4 DEF Lasted, Counts
  <2>7. /\ truth'.run = 0 /\ truth'.read = truth.read /\ truth' \in [read : Times, run : Nat]
    BY <1>1, <1>2 DEF SessionTypeOK
  <2>8. ASSUME NEW p \in SessionPages
        PROVE  session'.read[p] + (IF session'.stretch.page = p THEN Lasted' ELSE 0) <= truth'.read[p]
    <3>1. session'.read[p] \in Nat /\ truth.read[p] \in Nat BY <2>5 DEF SessionTypeOK, Times
    <3> QED BY <2>5, <2>6, <2>7, <3>1, ReportBounds
  <2>9. SessionTypeOK' BY <1>1, <2>5, <2>7 DEF SessionTypeOK
  <2>10. SessionInv'
    <3>1. /\ session'.lastInput <= clock'
          /\ session'.stretch.page # 0 => session'.stretch.since <= clock'
          /\ session'.open => session'.stretch.page = IF screen'.shown THEN screen'.page ELSE 0
      <4>1. clock \in Nat /\ clock' = clock /\ screen' = screen /\ screen.shown
        BY <1>1 DEF SessionTypeOK
      <4>2. session'.stretch.page = screen.page /\ session'.stretch.since = clock BY <2>5
      <4> QED BY <2>5, <4>1, <4>2
    <3>2. \A p \in SessionPages : reported'[p] <= truth'.read[p] /\ \A r \in posts' : r[p] <= truth'.read[p]
      BY <1>1, <2>7 DEF SessionInv
    <3> QED BY <2>6, <2>7, <2>8, <3>1, <3>2 DEF SessionInv
  <2>11. Report(session)' = Report(session)
    <3>1. Report(session)' = [p \in SessionPages |-> session'.read[p] + 0] BY <2>6 DEF Report
    <3> QED BY <2>5, <3>1, ReportBounds DEF Times
  <2> QED BY <2>9, <2>10, <2>11
<1>3. CASE ~idle
  <2>1. session' = [session EXCEPT !.lastInput = clock] /\ UNCHANGED <<truth, clock, screen, posts, reported>>
    BY <1>1, <1>3
  <2>2. /\ session'.read = session.read /\ session'.lastInput = clock /\ session'.open = session.open
        /\ session'.stretch = session.stretch
    BY <2>1 DEF SessionTypeOK
  <2>3. ReadingUntil(session)' = clock /\ ReadingUntil(session) = clock
    BY <1>3, <2>1, <2>2 DEF ReadingUntil, Least, SessionTypeOK, SessionInv
  <2>4. StretchTime(session)' = StretchTime(session) BY <2>2, <2>3 DEF StretchTime
  <2>5. Lasted' = Lasted /\ Counts(session)' = Counts(session) BY <2>2, <2>4 DEF Lasted, Counts
  <2>6. SessionTypeOK' BY <2>1, <2>2 DEF SessionTypeOK
  <2>7. SessionInv' BY <2>1, <2>2, <2>5 DEF SessionInv, SessionTypeOK
  <2>8. Report(session)' = Report(session) BY <2>2, <2>4, <2>5 DEF Report
  <2> QED BY <2>6, <2>7, <2>8
<1> QED BY <1>2, <1>3

\* A tick lets the stretch go on by what is read of it, or not at all.
LEMMA TickInductive ==
    ASSUME IInv, Tick
    PROVE  IInv' /\ \A p \in SessionPages : Report(session)'[p] >= Report(session)[p]
<1> USE SessionAssumption DEF IInv
<1> DEFINE reads == screen.shown /\ clock < session.lastInput + IdleTime
<1>1. /\ clock' = clock + 1 /\ clock \in Nat /\ session.open /\ session.lastInput \in Nat
      /\ UNCHANGED <<session, screen, posts, reported>>
      /\ truth' = IF reads THEN [truth EXCEPT !.read[screen.page] = @ + 1, !.run = @ + 1] ELSE truth
  BY DEF Tick, SessionTypeOK
<1>2. ReadingUntil(session)' = IF clock < session.lastInput + IdleTime THEN ReadingUntil(session) + 1
                               ELSE ReadingUntil(session)
  BY <1>1 DEF ReadingUntil, Least, SessionTypeOK
<1>3. clock < session.lastInput + IdleTime => ReadingUntil(session) = clock
  BY <1>1 DEF ReadingUntil, Least, SessionTypeOK
<1>4. screen.shown <=> session.stretch.page # 0
  BY <1>1 DEF SessionTypeOK, SessionInv
<1>5. screen.shown => session.stretch.page = screen.page
  BY <1>1 DEF SessionTypeOK, SessionInv
<1>6. /\ reads => Lasted' = Lasted + 1 /\ StretchTime(session)' = StretchTime(session) + 1
      /\ ~reads => Lasted' = Lasted /\ StretchTime(session)' = StretchTime(session)
  <2>1. CASE reads
    <3>1. StretchTime(session) = clock - session.stretch.since /\ session.stretch.since <= clock
      BY <1>3, <1>4, <2>1 DEF StretchTime, SessionInv
    <3>2. StretchTime(session)' = clock + 1 - session.stretch.since
      <4>1. /\ clock' = clock + 1 /\ session' = session /\ session.stretch.page # 0
            /\ clock \in Nat /\ session.lastInput \in Nat /\ session.stretch.since \in Nat
            /\ clock < session.lastInput + IdleTime /\ IdleTime \in Nat
        BY <1>1, <1>4, <2>1 DEF SessionTypeOK
      <4> HIDE DEF reads, IInv
      <4> QED BY <4>1 DEF StretchTime, ReadingUntil, Least
    <3> QED BY <1>1, <2>1, <3>1, <3>2 DEF Lasted, SessionTypeOK
  <2>2. CASE ~reads
    <3>1. StretchTime(session)' = StretchTime(session)
      BY <1>1, <1>2, <1>4, <2>2 DEF StretchTime
    <3> QED BY <2>2, <3>1 DEF Lasted
  <2> QED BY <2>1, <2>2
<1>7. /\ truth' \in [read : Times, run : Nat]
      /\ truth'.run = IF reads THEN truth.run + 1 ELSE truth.run
      /\ \A p \in SessionPages :
            truth'.read[p] = IF reads /\ p = screen.page THEN truth.read[p] + 1 ELSE truth.read[p]
  <2>1. CASE reads
    <3> DEFINE read == [truth.read EXCEPT ![screen.page] = truth.read[screen.page] + 1]
    <3>1. truth' = [truth EXCEPT !.read[screen.page] = @ + 1, !.run = @ + 1] BY <1>1, <2>1
    <3>2. screen.page \in SessionPages /\ truth \in [read : Times, run : Nat] /\ truth.run \in Nat
      BY DEF SessionTypeOK
    <3>3. truth'.read = read /\ truth'.run = truth.run + 1 /\ truth' = [read |-> read, run |-> truth.run + 1]
      BY <3>1, <3>2
    <3>4. truth.read \in [SessionPages -> Nat] BY <3>2 DEF Times
    <3>5. read \in Times /\ \A p \in SessionPages :
              read[p] = IF p = screen.page THEN truth.read[p] + 1 ELSE truth.read[p]
      BY <3>2, <3>4 DEF Times
    <3> HIDE DEF read
    <3> QED BY <2>1, <3>2, <3>3, <3>5
  <2>2. CASE ~reads BY <1>1, <2>2 DEF SessionTypeOK
  <2> QED BY <2>1, <2>2
<1>8. ASSUME NEW p \in SessionPages
      PROVE  /\ session'.read[p] + (IF session'.stretch.page = p THEN Lasted' ELSE 0) <= truth'.read[p]
             /\ reported'[p] <= truth'.read[p] /\ \A r \in posts' : r[p] <= truth'.read[p]
             /\ Report(session)'[p] >= Report(session)[p]
  <2>1. /\ session.read[p] \in Nat /\ truth.read[p] \in Nat /\ reported[p] \in Nat
        /\ \A r \in posts : r[p] \in Nat
    BY DEF SessionTypeOK, Times
  <2>2. session'.read[p] + (IF session'.stretch.page = p THEN Lasted' ELSE 0) <= truth'.read[p]
    BY <1>1, <1>4, <1>5, <1>6, <1>7, <2>1, StretchTyped DEF SessionInv
  <2>3. reported'[p] <= truth'.read[p] /\ \A r \in posts' : r[p] <= truth'.read[p]
    BY <1>1, <1>7, <2>1 DEF SessionInv
  <2>4. Report(session)[p] = session.read[p] + IF Counts(session) /\ session.stretch.page = p THEN StretchTime(session) ELSE 0
    BY DEF Report
  <2>5. Report(session)'[p] = session.read[p] + IF Counts(session)' /\ session.stretch.page = p THEN StretchTime(session)' ELSE 0
    BY <1>1 DEF Report
  <2>6. Counts(session) => Counts(session)' /\ StretchTime(session)' >= StretchTime(session)
    BY <1>1, <1>6, StretchTyped DEF Counts
  <2>7. Counts(session)' => StretchTime(session)' >= 0
    BY <1>6, StretchTyped DEF Counts
  <2>8. Report(session)'[p] >= Report(session)[p]
    <3>1. StretchTime(session) \in Int /\ StretchTime(session)' \in Int BY <1>6, StretchTyped
    <3> QED BY <2>1, <2>4, <2>5, <2>6, <2>7, <3>1
  <2> QED BY <2>2, <2>3, <2>8
<1>9. SessionTypeOK' BY <1>1, <1>7 DEF SessionTypeOK
<1>10. SessionInv'
  <2>1. session'.lastInput <= clock' /\ (session'.stretch.page # 0 => session'.stretch.since <= clock')
    BY <1>1 DEF SessionInv, SessionTypeOK
  <2>2. session'.open => session'.stretch.page = IF screen'.shown THEN screen'.page ELSE 0
    BY <1>1 DEF SessionInv
  <2>3. screen'.shown => truth'.run = Lasted'
    BY <1>1, <1>6, <1>7 DEF SessionInv
  <2> QED BY <1>8, <2>1, <2>2, <2>3 DEF SessionInv
<1> QED BY <1>8, <1>9, <1>10

\* The timer, a report that arrives and a close leave what was read as it is.
LEMMA OtherInductive ==
    ASSUME IInv,
           \/ TimerFires \/ CloseSession \/ UNCHANGED sessionVars
           \/ \E r \in posts : Arrives(r)
    PROVE  IInv' /\ Report(session)' = Report(session)
<1> USE DEF IInv
<1>1. CASE TimerFires
  <2>1. /\ session' = session /\ posts' \subseteq Times /\ UNCHANGED <<clock, screen, reported, truth>>
        /\ \A p \in SessionPages, r \in posts' : r[p] <= truth.read[p]
    BY <1>1, ReportBounds, SendKeeps DEF TimerFires
  <2>2. Lasted' = Lasted BY <2>1 DEF Lasted, StretchTime, ReadingUntil
  <2> QED BY <2>1, <2>2 DEF SessionTypeOK, SessionInv, Report, Counts, StretchTime, ReadingUntil
<1>2. CASE CloseSession
  <2> DEFINE s == [session EXCEPT !.open = FALSE]
  <2>1. /\ s.read = session.read /\ s.lastInput = session.lastInput /\ s.stretch = session.stretch
        /\ ~s.open
        /\ s \in [read : Times, lastInput : Nat, open : BOOLEAN,
                  stretch : [page : SessionPages \cup {0}, since : Nat]]
    BY DEF SessionTypeOK
  <2>2. Report(s) = Report(session)
    BY <2>1 DEF Report, Counts, StretchTime, ReadingUntil
  <2>3. Send(s) /\ screen' = [screen EXCEPT !.shown = FALSE] /\ UNCHANGED <<clock, reported, truth>>
    BY <1>2 DEF CloseSession
  <2> HIDE DEF s
  <2>4. /\ session' = s /\ posts' \subseteq Times
        /\ \A p \in SessionPages, r \in posts' : r[p] <= truth.read[p]
    BY <2>2, <2>3, ReportBounds, SendKeeps
  <2>5. Lasted' = Lasted /\ Report(session)' = Report(session)
    BY <2>1, <2>3, <2>4 DEF Lasted, Report, Counts, StretchTime, ReadingUntil
  <2>6. SessionTypeOK' BY <2>1, <2>3, <2>4 DEF SessionTypeOK
  <2>7. SessionInv' BY <2>1, <2>3, <2>4, <2>5 DEF SessionInv
  <2> QED BY <2>5, <2>6, <2>7
<1>3. CASE UNCHANGED sessionVars
  BY <1>3 DEF sessionVars, SessionTypeOK, SessionInv, Lasted, Report, Counts, StretchTime, ReadingUntil
<1>4. ASSUME NEW r \in posts, Arrives(r) PROVE IInv' /\ Report(session)' = Report(session)
  <2>1. UNCHANGED <<clock, session, screen, truth>> /\ posts' \subseteq posts /\ reported' \in posts \cup {reported}
    BY <1>4 DEF Arrives
  <2>2. Lasted' = Lasted /\ Report(session)' = Report(session)
    BY <2>1 DEF Lasted, Report, Counts, StretchTime, ReadingUntil
  <2>3. SessionTypeOK' BY <2>1 DEF SessionTypeOK
  <2>4. SessionInv' BY <2>1, <2>2 DEF SessionInv
  <2> QED BY <2>2, <2>3, <2>4
<1> QED BY <1>1, <1>2, <1>3, <1>4

\* Every step keeps the invariant and shrinks no report.
LEMMA Inductive ==
    ASSUME IInv, [SessionNext]_sessionVars
    PROVE  IInv' /\ \A p \in SessionPages : Report(session)'[p] >= Report(session)[p]
<1>0. \A page \in SessionPages, shown \in BOOLEAN : Report(Start(session, page, shown)) = Report(session)
  BY StartKeeps
<1> USE DEF IInv
<1>1. ASSUME Report(session)' = Report(session)
      PROVE  \A p \in SessionPages : Report(session)'[p] >= Report(session)[p]
  BY <1>1, ReportBounds DEF Times
<1>2. ASSUME NEW page \in SessionPages, NEW shown \in BOOLEAN, session.open,
             \/ Send(Start(session, page, shown))
             \/ session' = Start(session, page, shown) /\ posts' = posts,
             screen' = [page |-> page, shown |-> shown],
             truth' = [truth EXCEPT !.run = 0], UNCHANGED <<clock, reported>>
      PROVE  IInv' /\ Report(session)' = Report(session)
  <2>1. Report(Start(session, page, shown)) = Report(session) BY <1>0
  <2>2. /\ session' = Start(session, page, shown) /\ posts' \subseteq Times
        /\ \A p \in SessionPages, r \in posts' : r[p] <= truth.read[p]
    <3> DEFINE s == Start(session, page, shown)
    <3>1. ASSUME Send(s) PROVE session' = s /\ posts' \subseteq Times
                               /\ \A p \in SessionPages, r \in posts' : r[p] <= truth.read[p]
      <4>1. Report(s) = Report(session) BY <2>1
      <4> HIDE DEF s
      <4> QED BY <3>1, <4>1, ReportBounds, SendKeeps
    <3>2. CASE session' = s /\ posts' = posts BY <3>2 DEF SessionTypeOK, SessionInv
    <3> QED BY <1>2, <3>1, <3>2
  <2>3. IInv' BY <1>2, <2>2, StartInductive
  <2>4. Report(session)' = Report(session)
    BY <1>2, <2>1, <2>2 DEF Report, Counts, StretchTime, ReadingUntil
  <2> QED BY <2>3, <2>4
<1>3. CASE Input BY <1>1, <1>3, InputInductive
<1>4. ASSUME NEW page \in SessionPages, PageChanged(page) PROVE IInv' /\ Report(session)' = Report(session)
  BY <1>2, <1>4 DEF PageChanged, SessionTypeOK
<1>5. CASE Hidden BY <1>1, <1>2, <1>5, EndKeeps DEF Hidden, SessionTypeOK
<1>6. CASE ShownAgain BY <1>1, <1>2, <1>6 DEF ShownAgain, SessionTypeOK
<1>7. CASE Tick BY <1>7, TickInductive
<1> QED BY <1>1, <1>3, <1>4, <1>5, <1>6, <1>7, OtherInductive DEF SessionNext

\* A session begins with nothing read.
LEMMA Initial == SessionInit => IInv
<1> SUFFICES ASSUME SessionInit PROVE IInv OBVIOUS
<1> USE SessionAssumption DEF SessionInit
<1>1. PICK p \in SessionPages, b \in BOOLEAN :
          /\ screen = [page |-> p, shown |-> b]
          /\ session = [read |-> reported, lastInput |-> 0, open |-> TRUE,
                        stretch |-> IF b THEN [page |-> p, since |-> 0] ELSE NoStretch]
  OBVIOUS
<1>2. SessionTypeOK BY <1>1 DEF SessionTypeOK, Times, NoStretch
<1>3. Lasted = 0 BY <1>1 DEF Lasted, StretchTime, ReadingUntil, Least, NoStretch
<1>4. SessionInv BY <1>1, <1>2, <1>3 DEF SessionInv, SessionTypeOK, Times, NoStretch
<1> QED BY <1>2, <1>4 DEF IInv

----------------------------------------------------------------------------
(* The theorems.                                                                *)

\* The clock, the session, its reports and what was read stay what they are typed to be.
THEOREM SessionTyped == SessionSpec => []SessionTypeOK
BY Initial, Inductive, PTL DEF SessionSpec, IInv

\* What is counted of a page, here or in the bucket, is at most what was read of it; a run on the
\* page shown that lasts long enough is counted whole.
THEOREM TimeExactAlways == SessionSpec => []TimeExact
<1>1. ASSUME IInv PROVE TimeExact
  <2>1. NeverOvercounted BY <1>1, ReportBounds DEF NeverOvercounted, IInv, SessionInv
  <2>2. CountsTheRun
    <3> SUFFICES ASSUME session.open, screen.shown, truth.run >= MinPageTime
                 PROVE  Report(session)[screen.page] >= truth.run
      BY DEF CountsTheRun
    <3>1. session.stretch.page = screen.page /\ screen.page # 0 /\ truth.run = Lasted
          /\ screen.page \in SessionPages /\ session.read[screen.page] \in Nat
      BY <1>1, SessionAssumption DEF IInv, SessionInv, SessionTypeOK, Times
    <3>2. StretchTime(session) = Lasted /\ Counts(session)
      BY <1>1, <3>1, StretchTyped, SessionAssumption DEF IInv, Lasted, Counts
    <3> QED BY <1>1, <3>1, <3>2, StretchTyped DEF IInv, Report
  <2> QED BY <2>1, <2>2 DEF TimeExact
<1> QED BY <1>1, Initial, Inductive, PTL DEF SessionSpec

\* No step shrinks what the session reports of a page, so that a report may replace those before.
THEOREM ReportsGrowAlways == SessionSpec => ReportsGrow
BY Initial, Inductive, PTL DEF SessionSpec, ReportsGrow
=============================================================================
