----------------------------- MODULE MCSavePdf -----------------------------
(* Instances of SavePdf for TLC.                                           *)
EXTENDS SavePdf, TLC

CONSTANTS w1, w2, e1, e2, e3, k1, m1

\* Any window may draw any edit: both sets are symmetric for safety.
Alike == Permutations(Edits) \cup Permutations(Windows)
=============================================================================
