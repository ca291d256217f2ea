------------------------------- MODULE MCSend -------------------------------
(* Instances of Send for TLC.                                              *)
EXTENDS Send, TLC

CONSTANTS s1, s2, x1, o1, d1, u1, n1, n2, p1, p2

\* Zotero's attachments are alike.
Alike == Permutations(Pdfs)
=============================================================================
