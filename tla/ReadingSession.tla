--------------------------- MODULE ReadingSession ---------------------------
(* The reading session of one PDF open in the reader: the stretches in which a  *)
(* page of it was read, the reports of what they add up to, and the bucket's    *)
(* copy, which the last report to arrive replaces.                              *)
EXTENDS Integers, FiniteSets

CONSTANTS
    SessionPages,   \* the PDF's pages
    IdleTime,       \* how long after an input reading goes on
    MinPageTime,    \* how long a stretch must last to count
    MaxTime,        \* bound: the clock
    MaxPosts        \* bound: reports under way at once

ASSUME SessionAssumption ==
    /\ SessionPages # {} /\ 0 \notin SessionPages
    /\ {IdleTime, MaxTime, MaxPosts} \subseteq Nat /\ MinPageTime \in Nat \ {0}

VARIABLES
    clock,
    session,   \* the fields of ReadingSession; a stretch with page 0 is none
    screen,    \* the page the reader is at and whether it is shown
    posts,     \* reports under way to the bucket
    reported,  \* the session as the bucket keeps it
    truth      \* what was read: the time each page was, and the present run of it

sessionVars == <<clock, session, screen, posts, reported, truth>>

NoStretch == [page |-> 0, since |-> 0]
Least(a, b) == IF a < b THEN a ELSE b

----------------------------------------------------------------------------
\* A bug it could have: an idle reader goes on reading.
ReadingUntilNow(s) == clock

\* Reading goes on until now, or until the user has been idle.
ReadingUntil(s) == Least(clock, s.lastInput + IdleTime)

StretchTime(s) == IF s.stretch.page = 0 THEN 0 ELSE ReadingUntil(s) - s.stretch.since
Counts(s) == s.stretch.page # 0 /\ StretchTime(s) >= MinPageTime

\* The time each page was read, the stretch that goes on included once it counts.
Report(s) ==
    [p \in SessionPages |-> s.read[p] + IF Counts(s) /\ s.stretch.page = p THEN StretchTime(s) ELSE 0]

\* A bug it could have: a stretch that ends is dropped.
EndStretchDropped(s) == [s EXCEPT !.stretch = NoStretch]

EndStretch(s) == [s EXCEPT !.read = Report(s), !.stretch = NoStretch]

\* Reading page starts now; nothing is read while the reader is hidden.
Start(s, page, shown) ==
    [EndStretch(s) EXCEPT !.stretch = IF shown THEN [page |-> page, since |-> clock] ELSE NoStretch]

\* A report is sent once a page has been read.
Send(s) ==
    /\ session' = s
    /\ posts' = IF \E p \in SessionPages : Report(s)[p] > 0 THEN posts \cup {Report(s)} ELSE posts
    /\ Cardinality(posts') <= MaxPosts

----------------------------------------------------------------------------
\* A bug it could have: every input starts a new stretch.
InputRestarts ==
    /\ screen.shown /\ session.open
    /\ session' = Start([session EXCEPT !.lastInput = clock], screen.page, TRUE)
    /\ UNCHANGED <<clock, screen, posts, reported, truth>>

\* An input; after an idle spell it starts a new stretch.
Input ==
    /\ screen.shown /\ session.open
    /\ LET idle == clock - session.lastInput > IdleTime
           s == [(IF idle THEN EndStretch(session) ELSE session) EXCEPT !.lastInput = clock]
       IN  /\ session' = IF idle THEN Start(s, screen.page, TRUE) ELSE s
           /\ truth' = IF idle THEN [truth EXCEPT !.run = 0] ELSE truth
    /\ UNCHANGED <<clock, screen, posts, reported>>

PageChanged(page) ==
    /\ session.open /\ page # screen.page
    /\ screen' = [screen EXCEPT !.page = page]
    /\ Send(Start(session, page, screen.shown))
    /\ truth' = [truth EXCEPT !.run = 0] /\ UNCHANGED <<clock, reported>>

\* The reader is hidden: another PDF, the library or another window is shown.
Hidden ==
    /\ session.open /\ screen.shown
    /\ screen' = [screen EXCEPT !.shown = FALSE]
    /\ Send(EndStretch(session))
    /\ truth' = [truth EXCEPT !.run = 0] /\ UNCHANGED <<clock, reported>>

ShownAgain ==
    /\ session.open /\ ~screen.shown
    /\ screen' = [screen EXCEPT !.shown = TRUE]
    /\ session' = Start(session, screen.page, TRUE)
    /\ truth' = [truth EXCEPT !.run = 0] /\ UNCHANGED <<clock, posts, reported>>

\* Every half a minute, and before a close or a sleep, the session is sent.
TimerFires == session.open /\ Send(session) /\ UNCHANGED <<clock, screen, reported, truth>>

\* The PDF leaves the reader: the session is sent a last time.
CloseSession ==
    /\ session.open /\ Send([session EXCEPT !.open = FALSE])
    /\ screen' = [screen EXCEPT !.shown = FALSE] /\ UNCHANGED <<clock, reported, truth>>

\* A report arrives, in any order, and replaces what the bucket holds, or is lost.
Arrives(report) ==
    /\ posts' = posts \ {report} /\ reported' \in {report, reported}
    /\ UNCHANGED <<clock, session, screen, truth>>

Tick ==
    /\ clock < MaxTime /\ session.open
    /\ clock' = clock + 1
    /\ truth' = IF screen.shown /\ clock < session.lastInput + IdleTime
                THEN [truth EXCEPT !.read[screen.page] = @ + 1, !.run = @ + 1] ELSE truth
    /\ UNCHANGED <<session, screen, posts, reported>>

SessionInit ==
    /\ clock = 0 /\ posts = {} /\ reported = [p \in SessionPages |-> 0]
    /\ \E p \in SessionPages, b \in BOOLEAN :
          /\ screen = [page |-> p, shown |-> b]
          /\ session = [read |-> reported, lastInput |-> 0, open |-> TRUE,
                        stretch |-> IF b THEN [page |-> p, since |-> 0] ELSE NoStretch]
    /\ truth = [read |-> reported, run |-> 0]

SessionNext ==
    \/ Input \/ Hidden \/ ShownAgain \/ TimerFires \/ CloseSession \/ Tick
    \/ \E p \in SessionPages : PageChanged(p)
    \/ \E r \in posts : Arrives(r)

SessionSpec == SessionInit /\ [][SessionNext]_sessionVars

----------------------------------------------------------------------------
(* Properties. *)

Times == [SessionPages -> Nat]
SessionTypeOK ==
    /\ clock \in Nat
    /\ session \in [read : Times, lastInput : Nat, open : BOOLEAN,
                    stretch : [page : SessionPages \cup {0}, since : Nat]]
    /\ screen \in [page : SessionPages, shown : BOOLEAN]
    /\ posts \subseteq Times /\ reported \in Times
    /\ truth \in [read : Times, run : Nat]

\* No page is counted, here or in the bucket, longer than it was on the screen of
\* a user who was not idle, whatever the page changes, hidings and late reports.
NeverOvercounted ==
    \A p \in SessionPages : Report(session)[p] <= truth.read[p] /\ reported[p] <= truth.read[p]

\* A run of reading on one page that is long enough is counted whole at once.
CountsTheRun ==
    session.open /\ screen.shown /\ truth.run >= MinPageTime => Report(session)[screen.page] >= truth.run

\* What a session reports of a page never shrinks, so that each report may
\* replace the one before.
ReportsGrow ==
    [][\A p \in SessionPages : Report(session)'[p] >= Report(session)[p]]_sessionVars

\* Reading is counted neither twice nor, once it lasts, in part.
TimeExact == NeverOvercounted /\ CountsTheRun
=============================================================================
