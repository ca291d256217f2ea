---------------------------- MODULE MCDocuments ----------------------------
(* Instances of Documents for TLC: keys are interchangeable. *)
EXTENDS Documents, TLC

KeySymmetry == Permutations(Keys)
=============================================================================
