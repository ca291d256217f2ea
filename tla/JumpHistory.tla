----------------------------- MODULE JumpHistory -----------------------------
(* The positions a reader jumped between in one PDF and the index of the one it *)
(* shows, as its document storage keeps them. The place a jump leads to is not  *)
(* stored until a step leaves it.                                               *)
EXTENDS Integers, Sequences

CONSTANTS
    Pages,
    Corners,    \* where on a page the viewport's top-left corner may be, and how zoomed
    MaxKept     \* bound: positions kept

ASSUME HistoryAssumption == MaxKept \in Nat

VARIABLES
    position,    \* where the reader is: its page and corner
    positions,   \* the positions it jumped from
    index        \* how many of them lie behind the one shown: past the last, it is past them all

historyVars == <<position, positions, index>>

Positions == [page : Pages, corner : Corners]

\* The position at a place of the array, counted from 0 as the code counts it.
Kept(n) == positions[n + 1]
Keeps(n) == n \in 0..Len(positions) - 1

\* A bug it could have: the positions ahead stay when a jump leads elsewhere.
JumpedKeeping(from) ==
    /\ positions' = Append(positions, from)
    /\ index' = Len(positions) + 1

\* A jump keeps the positions before the one shown, then the one it leaves.
Jumped(from) ==
    /\ positions' = Append(SubSeq(positions, 1, index), from)
    /\ index' = index + 1

\* EmbedPDF announces a change of page before it moves: a jump within the page is not one.
Jump(to) ==
    /\ to.page # position.page /\ index < MaxKept
    /\ Jumped(position)
    /\ position' = to

\* The reader scrolls, zooms, or follows a link to its own page.
Scroll(to) == position' = to /\ UNCHANGED <<positions, index>>

\* A bug it could have: a step keeps the position only where a jump left one.
StoredOld(n, current) == IF Keeps(n) THEN positions ELSE Append(positions, current)

\* The positions with the current one in the place of the one shown, or after them all.
Stored(n, current) ==
    IF Keeps(n) THEN [positions EXCEPT ![n + 1] = current] ELSE Append(positions, current)

\* A step back or forward, which the reader's own move then shows; it is not itself a jump.
Walk(step) ==
    /\ Keeps(index + step)
    /\ position' = Kept(index + step)
    /\ positions' = Stored(index, position)
    /\ index' = index + step

HistoryInit == position \in Positions /\ positions = <<>> /\ index = 0
HistoryNext ==
    \/ \E p \in Positions : Jump(p) \/ Scroll(p)
    \/ \E step \in {-1, 1} : Walk(step)
HistorySpec == HistoryInit /\ [][HistoryNext]_historyVars

----------------------------------------------------------------------------
(* Properties.                                                                  *)

\* The index lies in the array or right after it.
HistoryTypeOK == position \in Positions /\ positions \in Seq(Positions) /\ index \in 0..Len(positions)

\* Back and Forward walk as a browser's: a step and the opposite one return to the very place left,
\* a jump forgets only the places ahead.
Browser == INSTANCE BrowserHistory WITH
    Places <- Positions, at <- position,
    behind <- SubSeq(positions, 1, index), ahead <- SubSeq(positions, index + 2, Len(positions))

WalksAsBrowser == Browser!BrowserSpec
=============================================================================
