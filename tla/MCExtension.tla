---------------------------- MODULE MCExtension ----------------------------
(* Instances of Extension for TLC, and what it takes for a PDF. *)
EXTENDS Extension, Interception

\* A navigation or a frame, then a link that saves the same PDF.
Mixed == [r \in Responses |-> IF r = 1 THEN {"frame", "small"} ELSE {"link"}]

\* What the browsers take for a PDF is the same, and what they take is claimed,
\* delivered and handed on as it should be.
CapturesSound == ClaimsSound /\ BrowsersAgree
=============================================================================
