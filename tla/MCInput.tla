------------------------------- MODULE MCInput -------------------------------
(* Instances of the reader's input for TLC: a behaviour is one of the pointer   *)
(* and key input, of a reading session or of the jump history; none reads the   *)
(* state of another.                                                            *)
EXTENDS PointerInput, ReadingSession, JumpHistory

VARIABLE part

Boxes == [a \in {"high", "ink", "link"} |->
    CASE a = "high" -> [doc |-> "p", page |-> 1, kind |-> "highlight", x |-> <<2, 3>>, y |-> <<2, 2>>]
      [] a = "ink" -> [doc |-> "q", page |-> 1, kind |-> "ink", x |-> <<1, 1>>, y |-> <<2, 4>>]
      [] OTHER -> [doc |-> "p", page |-> 1, kind |-> "link", x |-> <<0, 1>>, y |-> <<4, 4>>]]
Places == {<<0, 0>>, <<4, 3>>, <<1, 4>>}

Init == PointerInit /\ SessionInit /\ HistoryInit /\ part \in {"pointer", "session", "history"}
        /\ (part # "session" => screen = [page |-> 1, shown |-> TRUE])
        /\ (part # "history" => position = [page |-> 1, corner |-> 1])
Next ==
    \/ part = "pointer" /\ PointerNext /\ UNCHANGED <<sessionVars, historyVars, part>>
    \/ part = "session" /\ SessionNext /\ UNCHANGED <<pointerVars, historyVars, part>>
    \/ part = "history" /\ HistoryNext /\ UNCHANGED <<pointerVars, sessionVars, part>>
Spec == Init /\ [][Next]_<<pointerVars, sessionVars, historyVars, part>>
=============================================================================
