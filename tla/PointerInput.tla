---------------------------- MODULE PointerInput ----------------------------
(* The reader's own pointer and key input over EmbedPDF's viewer: a pen that    *)
(* highlights in View, its eraser, a secondary press that pauses EmbedPDF, the  *)
(* Delete key in Annotate, and the stylus mode the desktop shell is told.       *)
EXTENDS Integers, FiniteSets

CONSTANTS
    Docs, None,
    Tools,          \* the annotation tools a user can take up, "highlight" among them
    PdfPages,       \* pages of a PDF
    Annotations,    \* annotations, each with its doc, page, kind and box
    AnnotationOf,   \* [Annotations -> [doc, page, kind, x, y]], x and y being <<low, high>>
    Points,         \* places of the pen on screen, <<x, y>>
    Nib,            \* the tolerance around a box
    Scale           \* a common multiple of the distances between Points

ASSUME PointerAssumption ==
    /\ "highlight" \in Tools /\ None \notin Docs \cup Points \cup Tools \cup {"unknown"}
    /\ Scale \in Nat \ {0} /\ Nib \in Int
    /\ \A p \in Points : p[1] \in Int /\ p[2] \in Int
    /\ \A a \in Annotations, i \in {1, 2} : AnnotationOf[a].x[i] \in Int /\ AnnotationOf[a].y[i] \in Int
    /\ \A p, q \in Points : \A i \in {1, 2} : p[i] = q[i] \/ \E n \in -Scale..Scale : n * (p[i] - q[i]) = Scale

VARIABLES
    viewer,   \* EmbedPDF: the active PDF, those laid out, each one's toolbar and tool, and the
              \* pages it has drawn, none between two page layouts
    pen,      \* usePen: the stroke or the erasure that goes on, the PDF and toolbar it began in
    press,    \* useSecondaryPress, whether EmbedPDF is paused, and the buttons held
    kept,     \* the annotations not deleted
    window,   \* whether the reader is in view, and the mode the desktop was last told
    chosen    \* the tool the user last took up in each PDF, and the PDFs that a stroke which
              \* ended in another PDF than it began in has left with a tool of its own

pointerVars == <<viewer, pen, press, kept, window, chosen>>

Idle == [down |-> FALSE, restoring |-> None, began |-> None, mode |-> "unknown", last |-> None]
Toolbars == {None, "annotation-toolbar", "other"}

\* The secondary toolbar of the PDF shown; "unknown" while no laid-out one is.
ActiveToolbar(v) == IF v.active \in v.laidOut THEN v.toolbar[v.active] ELSE "unknown"

\* A bug it could have: the toolbar is told by its own name.
StylusModeNamed(toolbar) == IF toolbar = None THEN "view" ELSE toolbar

StylusMode(toolbar) ==
    CASE toolbar = None -> "view" [] toolbar = "annotation-toolbar" -> "annotate" [] OTHER -> "edit"

----------------------------------------------------------------------------
(* The eraser's geometry. *)

\* A bug it could have: only the ends of a movement are tested.
CrossesAtEnds(p, q, a) ==
    \E r \in {p, q} : /\ r[1] \in (AnnotationOf[a].x[1] - Nib)..(AnnotationOf[a].x[2] + Nib)
                      /\ r[2] \in (AnnotationOf[a].y[1] - Nib)..(AnnotationOf[a].y[2] + Nib)

\* Liang-Barsky clipping of the segment from p to q by the box of annotation a,
\* widened by the nib: the part of it within each side, as bounds n/d with d > 0.
Crosses(p, q, a) ==
    LET box == [i \in {1, 2} |-> IF i = 1 THEN AnnotationOf[a].x ELSE AnnotationOf[a].y]
        delta(i) == q[i] - p[i]
        lo(i) == box[i][1] - Nib - p[i]
        hi(i) == box[i][2] + Nib - p[i]
        moving == {i \in {1, 2} : delta(i) # 0}
        enters == {<<0, 1>>} \cup {IF delta(i) > 0 THEN <<lo(i), delta(i)>> ELSE <<-hi(i), -delta(i)>> : i \in moving}
        leaves == {<<1, 1>>} \cup {IF delta(i) > 0 THEN <<hi(i), delta(i)>> ELSE <<-lo(i), -delta(i)>> : i \in moving}
    IN  /\ \A i \in {1, 2} \ moving : lo(i) <= 0 /\ hi(i) >= 0
        /\ \A e \in enters, l \in leaves : e[1] * l[2] <= l[1] * e[2]

\* What the eraser may delete: highlights in View, in Annotate all but links and
\* locked annotations.
Erasable(a, annotate) ==
    IF annotate THEN AnnotationOf[a].kind \notin {"link", "locked"} ELSE AnnotationOf[a].kind = "highlight"

\* Whether the eraser can reach a: it is on a page drawn of the PDF shown.
Reached(v, a) ==
    /\ AnnotationOf[a].doc = v.active /\ v.active \in v.laidOut /\ AnnotationOf[a].page \in v.drawn
    /\ Erasable(a, ActiveToolbar(v) = "annotation-toolbar")

\* The annotations of the PDF shown that the eraser, moved from p to q, deletes. Between
\* two layouts there are no shown pages, and the movement deletes nothing.
EraseBetween(v, p, q) == {a \in kept : Reached(v, a) /\ Crosses(p, q, a)}

----------------------------------------------------------------------------
(* Strokes. *)

\* A bug it could have: the tool is given back only by the pen's release.
RestoreToolNever(v) == v

\* The end of a stroke gives back the tool it found, while it left the highlighter.
RestoreTool(v) ==
    IF pen.down /\ v.active # None /\ v.tool[v.active] = "highlight"
    THEN [v EXCEPT !.tool[v.active] = pen.restoring] ELSE v

\* A stroke that ends in another PDF than it began in: the first keeps the highlighter, and
\* this one may have been given the tool of the first.
LeftBehind(v) ==
    IF pen.down /\ v.active # pen.began THEN [chosen EXCEPT !.left = @ \cup {pen.began, v.active}]
    ELSE chosen

\* The window's blur and a change of the stylus mode end every stroke.
LostFocus(v) == viewer' = RestoreTool(v) /\ pen' = Idle /\ chosen' = LeftBehind(v)

\* A bug it could have: the strokes are not told.
UpdateStylusModeQuiet(v, d) ==
    /\ viewer' = v /\ UNCHANGED <<pen, chosen>>
    /\ window' = IF window.inView THEN [window EXCEPT !.told = StylusMode(v.toolbar[d])] ELSE window

\* A change of the viewer, whose mode d has in it is told, when d has been laid
\* out, to the strokes and, while the reader is in view, to the desktop.
UpdateStylusMode(v, d) ==
    /\ LostFocus(v)
    /\ window' = IF window.inView THEN [window EXCEPT !.told = StylusMode(v.toolbar[d])] ELSE window

\* A pen presses a page in View or Annotate, with its eraser or its tip.
Pressed(at, eraser) ==
    LET toolbar == ActiveToolbar(viewer) IN
    /\ toolbar \in {None, "annotation-toolbar"} /\ ~pen.down /\ pen.last = None
    /\ \/ /\ eraser /\ kept' = kept \ EraseBetween(viewer, at, at)
          /\ pen' = [pen EXCEPT !.last = at, !.began = viewer.active, !.mode = toolbar] /\ UNCHANGED viewer
       \/ /\ ~eraser /\ toolbar = None /\ UNCHANGED kept
          /\ pen' = [down |-> TRUE, restoring |-> viewer.tool[viewer.active],
                     began |-> viewer.active, mode |-> toolbar, last |-> None]
          /\ viewer' = [viewer EXCEPT !.tool[viewer.active] = "highlight"]
    /\ UNCHANGED <<press, window, chosen>>

\* The eraser moves; what it passes while no page is drawn it does not come back to.
EraserMoved(to) ==
    /\ pen.last # None
    /\ kept' = kept \ EraseBetween(viewer, pen.last, to)
    /\ pen' = [pen EXCEPT !.last = to]
    /\ UNCHANGED <<viewer, press, window, chosen>>

\* The pen is lifted, or its press is cancelled, which erases no further.
Released(to, cancelled) ==
    /\ pen # Idle
    /\ kept' = IF pen.last = None \/ cancelled THEN kept ELSE kept \ EraseBetween(viewer, pen.last, to)
    /\ LostFocus(viewer)
    /\ press' = [press EXCEPT !.paused = FALSE, !.suspended = IF press.paused THEN FALSE ELSE @]
    /\ UNCHANGED window

----------------------------------------------------------------------------
(* The mouse's other buttons, and the window's blur. *)

\* A press of another button pauses EmbedPDF, which keeps its text selection.
SecondaryPressed ==
    /\ viewer.active # None /\ ~press.held
    /\ press' = [paused |-> TRUE, suspended |-> TRUE, held |-> TRUE]
    /\ UNCHANGED <<viewer, pen, kept, window, chosen>>

SecondaryReleased ==
    /\ press.held
    /\ press' = [paused |-> FALSE, held |-> FALSE, suspended |-> IF press.paused THEN FALSE ELSE press.suspended]
    /\ UNCHANGED <<viewer, pen, kept, window, chosen>>

\* A bug it could have: the pause outlives the blur.
BlurPaused == LostFocus(viewer) /\ press' = [press EXCEPT !.held = FALSE] /\ UNCHANGED <<kept, window>>

\* The window loses the focus, with it the release of what is held.
Blur ==
    /\ LostFocus(viewer)
    /\ press' = [paused |-> FALSE, held |-> FALSE, suspended |-> IF press.paused THEN FALSE ELSE press.suspended]
    /\ UNCHANGED <<kept, window>>

----------------------------------------------------------------------------
(* The viewer changes. *)

\* The user takes up a tool in the PDF shown; during a stroke, Escape alone can.
PickTool(t) ==
    /\ viewer.active # None /\ (pen.down => t = None)
    /\ viewer' = [viewer EXCEPT !.tool[viewer.active] = t]
    /\ chosen' = [tool |-> [chosen.tool EXCEPT ![viewer.active] = t], left |-> chosen.left \ {viewer.active}]
    /\ UNCHANGED <<pen, press, kept, window>>

\* The PDF shown gets another secondary toolbar.
ToolbarChanged(t) ==
    /\ viewer.active \in viewer.laidOut
    /\ UpdateStylusMode([viewer EXCEPT !.toolbar[viewer.active] = t], viewer.active)
    /\ UNCHANGED <<press, kept>>

\* Another PDF is shown; a stroke under way ends there once that is laid out.
Activated(d) ==
    /\ d # viewer.active
    /\ LET v == [viewer EXCEPT !.active = d, !.drawn = {}]
       IN  IF d \in viewer.laidOut THEN UpdateStylusMode(v, d)
           ELSE viewer' = v /\ UNCHANGED <<pen, window, chosen>>
    /\ UNCHANGED <<press, kept>>

LaidOutFirst(d) ==
    /\ d = viewer.active /\ d \notin viewer.laidOut
    /\ UpdateStylusMode([viewer EXCEPT !.laidOut = @ \cup {d}], d)
    /\ UNCHANGED <<press, kept>>

\* EmbedPDF draws other pages of the PDF shown, or is between two layouts.
PagesDrawn(pages) ==
    /\ viewer.active \in viewer.laidOut
    /\ viewer' = [viewer EXCEPT !.drawn = pages]
    /\ UNCHANGED <<pen, press, kept, window, chosen>>

\* A bug it could have: shown again, the reader leaves the mode to the next change.
InViewQuiet(shown) ==
    /\ window.inView # shown
    /\ window' = [inView |-> shown, told |-> IF shown THEN window.told ELSE "inactive"]
    /\ UNCHANGED <<viewer, pen, press, kept, chosen>>

\* The tab row shows the reader, which tells its mode, or the library.
InView(shown) ==
    /\ window.inView # shown
    /\ window' = [inView |-> shown,
                  told |-> IF ~shown THEN "inactive"
                           ELSE IF ActiveToolbar(viewer) = "unknown" THEN window.told
                           ELSE StylusMode(ActiveToolbar(viewer))]
    /\ UNCHANGED <<viewer, pen, press, kept, chosen>>

\* Delete or Backspace outside a field, in Annotate: the selected annotations but
\* links go.
DeleteKey(selected) ==
    /\ window.inView /\ ActiveToolbar(viewer) = "annotation-toolbar"
    /\ \A a \in selected : AnnotationOf[a].doc = viewer.active
    /\ kept' = kept \ {a \in selected : AnnotationOf[a].kind # "link"}
    /\ UNCHANGED <<viewer, pen, press, window, chosen>>

----------------------------------------------------------------------------
PointerInit ==
    /\ viewer = [active |-> None, laidOut |-> {}, toolbar |-> [d \in Docs |-> None],
                 tool |-> [d \in Docs |-> None], drawn |-> {}]
    /\ pen = Idle /\ kept = Annotations
    /\ press = [paused |-> FALSE, suspended |-> FALSE, held |-> FALSE]
    /\ window = [inView |-> TRUE, told |-> "inactive"]
    /\ chosen = [tool |-> [d \in Docs |-> None], left |-> {}]

PointerNext ==
    \/ \E at \in Points, b \in BOOLEAN : Pressed(at, b) \/ Released(at, b)
    \/ \E to \in Points : EraserMoved(to)
    \/ SecondaryPressed \/ SecondaryReleased \/ Blur
    \/ \E t \in Tools \cup {None} : PickTool(t)
    \/ \E t \in Toolbars : ToolbarChanged(t)
    \/ \E d \in Docs : Activated(d) \/ LaidOutFirst(d)
    \/ \E pages \in SUBSET PdfPages : PagesDrawn(pages)
    \/ \E b \in BOOLEAN : InView(b)
    \/ \E selected \in SUBSET kept : DeleteKey(selected)

----------------------------------------------------------------------------
(* Properties. *)

PointerTypeOK ==
    /\ viewer \in [active : Docs \cup {None}, laidOut : SUBSET Docs, toolbar : [Docs -> Toolbars],
                   tool : [Docs -> Tools \cup {None}], drawn : SUBSET PdfPages]
    /\ pen \in [down : BOOLEAN, restoring : Tools \cup {None}, began : Docs \cup {None},
                mode : {"unknown", "annotation-toolbar", None}, last : Points \cup {None}]
    /\ kept \subseteq Annotations /\ press \in [paused : BOOLEAN, suspended : BOOLEAN, held : BOOLEAN]
    /\ window \in [inView : BOOLEAN, told : {"inactive", "view", "annotate", "edit"}]

\* Whether a point of the way from p to q is within the nib of annotation a.
Touched(p, q, a) ==
    \E i \in 0..Scale : \A c \in {1, 2} :
        LET side == IF c = 1 THEN AnnotationOf[a].x ELSE AnnotationOf[a].y
            at == Scale * p[c] + i * (q[c] - p[c])
        IN  at >= Scale * (side[1] - Nib) /\ at <= Scale * (side[2] + Nib)

\* While the eraser is down only it, and the Delete key, delete: it deletes what it may of the
\* pages drawn when a point of its way is within the nib, and a movement deletes all of
\* that. What a movement passes of a page not drawn then is not erased (eraseBetween
\* returns between two layouts, and the eraser's place moves on).
ErasesTouched ==
    \A p \in {pen.last} \ {None} : \A a \in kept :
        pen'.last # None =>
            \/ /\ a \notin kept' => Reached(viewer, a) /\ Touched(p, pen'.last, a)
               /\ pen'.last # p /\ Reached(viewer, a) /\ Touched(p, pen'.last, a) => a \notin kept'
            \/ \E s \in SUBSET kept : DeleteKey(s)
EraserExact == [][ErasesTouched]_pointerVars

\* A stroke or an erasure goes on only in the PDF and the mode it began in: another PDF
\* that is shown, once laid out, or another toolbar ends it.
StaysWhereItBegan ==
    pen.down \/ pen.last # None =>
        \/ viewer.active \notin viewer.laidOut
        \/ pen.began = viewer.active /\ pen.mode = ActiveToolbar(viewer)

\* Once no stroke goes on, each PDF has the tool its user last took up, but for the two PDFs of a
\* stroke that ended in another than it began in: until their user takes up a tool there, the
\* first keeps the highlighter and the second may have the tool of the first.
ToolRestored == ~pen.down => \A d \in Docs \ chosen.left : viewer.tool[d] = chosen.tool[d]

\* EmbedPDF is paused only while another button is held down.
ResumesOnRelease == press.suspended => press.held

\* The desktop knows the mode of the laid-out PDF in view, and of none other.
DesktopKnowsMode ==
    /\ window.inView /\ viewer.active \in viewer.laidOut
           => window.told = StylusMode(viewer.toolbar[viewer.active])
    /\ ~window.inView => window.told = "inactive"

\* What a stroke, an erasure or a secondary press sets up ends with it: the borrowed tool is
\* given back where the stroke ends in the PDF it began in (and not where it ends in
\* another, pointerInput.ts:396-406), nothing goes on in another laid-out PDF or mode, EmbedPDF
\* is not left paused, and the desktop has been told the mode.
PointerSettles == PointerTypeOK /\ StaysWhereItBegan /\ ToolRestored /\ ResumesOnRelease /\ DesktopKnowsMode
=============================================================================
