------------------------------ MODULE MCBucket ------------------------------
(* Instances of Bucket for TLC: who uploads what, under which names.        *)
EXTENDS Bucket, TLC

CONSTANTS k1, k2, u1, u2, u3

\* u1 and u2 bring the same PDF with the same name, and u3 another PDF whose
\* name gives k1 too: the key a delete frees is soon taken again.
SharedOriginal  == (u1 :> "paper") @@ (u2 :> "paper") @@ (u3 :> "book")
SharedCandidate == (u1 :> <<k1, k2>>) @@ (u2 :> <<k1, k2>>) @@ (u3 :> <<k1>>)

\* The same PDF twice, under the same name or under two.
PairOriginal     == (u1 :> "paper") @@ (u2 :> "paper")
PairCandidate    == (u1 :> <<k1, k2>>) @@ (u2 :> <<k1, k2>>)
RenamedCandidate == (u1 :> <<k1>>) @@ (u2 :> <<k1, k2>>)

\* Two PDFs under names of their own.
OwnOriginal  == (u1 :> "paper") @@ (u2 :> "book")
OwnCandidate == (u1 :> <<k1>>) @@ (u2 :> <<k2>>)

=============================================================================
