--------------------------- MODULE DocumentsProofs ---------------------------
(* Theorems about the reader's tabs, for any keys, pages and number of PDFs      *)
(* kept awake.  First what the operators on rows of tabs return, then the        *)
(* invariant and what each operation keeps of it, then one lemma for each action *)
(* of Next, and the theorems.                                                    *)
EXTENDS Documents, FiniteSetTheorems, SequenceTheorems, NaturalsInduction, WellFoundedInduction, TLAPS

-----------------------------------------------------------------------------
(* Rows of keys: what the operators on them return.                              *)

\* Sequences in which each key is at most once.
Rows == {q \in Seq(Keys) : \A i, j \in 1..Len(q) : q[i] = q[j] => i = j}

LEMMA RowFacts ==
    ASSUME NEW q \in Rows
    PROVE  /\ q \in Seq(Keys) /\ Len(q) \in Nat
           /\ \A i \in 1..Len(q) : q[i] \in Keys
           /\ ToSet(q) = {q[i] : i \in 1..Len(q)} /\ ToSet(q) \subseteq Keys
           /\ \A i, j \in 1..Len(q) : q[i] = q[j] => i = j
<1>1. q \in Seq(Keys) /\ \A i, j \in 1..Len(q) : q[i] = q[j] => i = j BY DEF Rows
<1>2. Len(q) \in Nat /\ DOMAIN q = 1..Len(q) BY <1>1, LenProperties
<1>3. \A i \in 1..Len(q) : q[i] \in Keys BY <1>1, ElementOfSeq
<1> QED BY <1>1, <1>2, <1>3 DEF ToSet

\* What is shown for 0 and for each next number is so for all of 0..N.
LEMMA Upwards ==
    ASSUME NEW N \in Nat, NEW T, 0 \in T, \A n \in 1..N : n - 1 \in T => n \in T
    PROVE  \A n \in 0..N : n \in T
<1> DEFINE R == {ss \in Nat \X Nat : ss[1] < ss[2]}
           Missing == (0..N) \ T
<1>1. SUFFICES ASSUME Missing # {} PROVE FALSE OBVIOUS
<1>2. IsWellFoundedOn(R, Nat) BY NatLessThanWellFounded DEF OpToRel
<1>3. Missing \subseteq Nat OBVIOUS
<1>4. PICK n \in Missing : \A m \in Missing : <<m, n>> \notin R
  <2> HIDE DEF R, Missing
  <2> QED BY <1>1, <1>2, <1>3, WFMin
<1>5. n \in 1..N /\ n - 1 \in 0..N /\ <<n - 1, n>> \in R BY <1>4
<1> QED BY <1>4, <1>5

\* f is defined by recursion over 0..N.
Recurses(f, N, base, G) == f[0] = base /\ \A n \in 1..N : f[n] = G[n][f[n - 1]]

\* A function defined so exists.
LEMMA Recursion ==
    ASSUME NEW N \in Nat, NEW D, NEW base \in D, NEW G, \A n \in 1..N : \A r \in D : G[n][r] \in D
    PROVE  \E f \in [0..N -> D] : Recurses(f, N, base, G)
<1> DEFINE Upto(m) == \E f \in [0..m -> D] : Recurses(f, m, base, G)
           T == {m \in 0..N : Upto(m)}
<1>1. 0 \in T
  <2> DEFINE f == [n \in 0..0 |-> base]
  <2>1. f \in [0..0 -> D] /\ f[0] = base OBVIOUS
  <2>2. \A n \in 1..0 : FALSE OBVIOUS
  <2> HIDE DEF f
  <2>3. Upto(0) BY <2>1, <2>2 DEF Recurses
  <2> QED BY <2>3
<1>2. ASSUME NEW m \in 1..N, m - 1 \in T PROVE m \in T
  <2>1. PICK f \in [0..m - 1 -> D] : f[0] = base /\ \A n \in 1..m - 1 : f[n] = G[n][f[n - 1]]
    BY <1>2 DEF Recurses
  <2>2. m - 1 \in 0..m - 1 /\ f[m - 1] \in D BY <1>2, <2>1
  <2> DEFINE g == [n \in 0..m |-> IF n = m THEN G[m][f[m - 1]] ELSE f[n]]
  <2>3. /\ g \in [0..m -> D] /\ g[m] = G[m][f[m - 1]]
        /\ \A n \in 0..m - 1 : g[n] = f[n]
    <3>1. G[m][f[m - 1]] \in D BY <1>2, <2>2
    <3>2. \A n \in 0..m : n # m => n \in 0..m - 1 BY <1>2
    <3> QED BY <1>2, <3>1, <3>2
  <2> HIDE DEF g
  <2>4. g[0] = base BY <1>2, <2>1, <2>3
  <2>5. ASSUME NEW n \in 1..m PROVE g[n] = G[n][g[n - 1]]
    <3>1. n - 1 \in 0..m - 1 BY <1>2
    <3>2. CASE n = m BY <2>3, <3>1, <3>2
    <3>3. CASE n \in 1..m - 1
      <4>1. n \in 0..m - 1 BY <3>3
      <4> QED BY <2>1, <2>3, <3>1, <3>3, <4>1
    <3> QED BY <1>2, <3>2, <3>3
  <2>6. Upto(m) BY <2>3, <2>4, <2>5 DEF Recurses
  <2> QED BY <2>6, <1>2
<1> HIDE DEF T
<1>3. \A n \in 0..N : n \in T BY <1>1, <1>2, Upwards
<1>4. N \in T BY <1>3
<1> QED BY <1>4 DEF T

\* Kept goes through seq step by step.
LEMMA KeptSteps ==
    ASSUME NEW q \in Seq(Keys), NEW S
    PROVE  \E f \in [0..Len(q) -> Seq(Keys)] :
              /\ f[0] = <<>> /\ Kept(q, S) = f[Len(q)]
              /\ \A n \in 1..Len(q) : f[n] = IF q[n] \in S THEN Append(f[n - 1], q[n]) ELSE f[n - 1]
<1> DEFINE D == Seq(Keys)
           N == Len(q)
           Step(r, n) == IF q[n] \in S THEN Append(r, q[n]) ELSE r
           G == [n \in 1..N |-> [r \in D |-> Step(r, n)]]
           Is(f) == f = [n \in 0..N |-> IF n = 0 THEN <<>>
                            ELSE IF q[n] \in S THEN Append(f[n - 1], q[n]) ELSE f[n - 1]]
<1>1. N \in Nat /\ <<>> \in D BY LenProperties, EmptySeq
<1>2. \A r \in D, n \in 1..N : Step(r, n) \in D
  <2>1. \A n \in 1..N : q[n] \in Keys BY ElementOfSeq
  <2> QED BY <2>1, AppendProperties
<1>3. \A n \in 1..N : \A r \in D : G[n][r] \in D BY <1>2
<1> HIDE DEF D, N
<1>4. PICK g \in [0..N -> D] : g[0] = <<>> /\ \A n \in 1..N : g[n] = G[n][g[n - 1]]
  <2> DEFINE base == <<>>
  <2>1. N \in Nat /\ base \in D BY <1>1
  <2> HIDE DEF G, base
  <2>2. \E f \in [0..N -> D] : Recurses(f, N, base, G) BY <1>3, <2>1, Recursion
  <2> QED BY <2>2 DEF base, Recurses
<1>5. \E f : Is(f)
  <2>1. ASSUME NEW n \in 0..N
        PROVE  g[n] = IF n = 0 THEN <<>> ELSE IF q[n] \in S THEN Append(g[n - 1], q[n]) ELSE g[n - 1]
    <3>1. CASE n = 0 BY <1>4, <3>1
    <3>2. CASE n # 0
      <4>1. n \in 1..N /\ n - 1 \in 0..N BY <1>1, <3>2
      <4> QED BY <1>4, <3>2, <4>1
    <3> QED BY <3>1, <3>2
  <2>2. Is(g) BY <1>4, <2>1
  <2> QED BY <2>2
<1> DEFINE h == CHOOSE f : Is(f)
<1>6. Is(h) BY <1>5
<1>7. Kept(q, S) = h[N] BY DEF Kept, N
<1> HIDE DEF h
<1>8. /\ h[0] = <<>> /\ DOMAIN h = 0..N
      /\ \A n \in 1..N : h[n] = IF q[n] \in S THEN Append(h[n - 1], q[n]) ELSE h[n - 1]
  <2>1. \A n \in 0..N : h[n] = IF n = 0 THEN <<>> ELSE IF q[n] \in S THEN Append(h[n - 1], q[n]) ELSE h[n - 1]
    BY <1>6
  <2>2. 0 \in 0..N /\ \A n \in 1..N : n \in 0..N /\ n # 0 BY <1>1
  <2> QED BY <1>6, <2>1, <2>2
<1>9. \A n \in 0..N : n \in {m \in 0..N : h[m] \in D}
  <2>1. ASSUME NEW n \in 1..N, h[n - 1] \in D PROVE h[n] \in D BY <1>2, <1>8, <2>1
  <2> DEFINE T == {m \in 0..N : h[m] \in D}
  <2>2. 0 \in T /\ \A n \in 1..N : n - 1 \in T => n \in T BY <1>1, <1>8, <2>1
  <2> HIDE DEF T
  <2>3. \A n \in 0..N : n \in T BY <1>1, <2>2, Upwards
  <2> QED BY <2>3 DEF T
<1>10. h \in [0..N -> D] BY <1>6, <1>8, <1>9
<1> QED BY <1>7, <1>8, <1>10 DEF D, N

\* It keeps what S has, each key as often as before, and none further back.
LEMMA KeptRow ==
    ASSUME NEW q \in Rows, NEW S
    PROVE  /\ Kept(q, S) \in Rows /\ ToSet(Kept(q, S)) = ToSet(q) \cap S
           /\ \A i \in 1..Len(Kept(q, S)) : \E j \in i..Len(q) : q[j] = Kept(q, S)[i]
<1> DEFINE N == Len(q)
           Sound(r, n) ==
              /\ \A i \in 1..Len(r) : \E j \in i..n : q[j] = r[i] /\ q[j] \in S
              /\ \A j \in 1..n : q[j] \in S => \E i \in 1..Len(r) : r[i] = q[j]
              /\ \A i, j \in 1..Len(r) : r[i] = r[j] => i = j
<1>1. /\ N \in Nat /\ q \in Seq(Keys) /\ \A n \in 1..N : q[n] \in Keys
      /\ \A i, j \in 1..N : q[i] = q[j] => i = j
  BY RowFacts
<1>2. PICK f \in [0..N -> Seq(Keys)] :
         /\ f[0] = <<>> /\ Kept(q, S) = f[N]
         /\ \A n \in 1..N : f[n] = IF q[n] \in S THEN Append(f[n - 1], q[n]) ELSE f[n - 1]
  <2> HIDE DEF Sound
  <2>1. q \in Seq(Keys) BY <1>1
  <2> QED BY <2>1, KeptSteps
<1> HIDE DEF N
<1>3. Sound(f[0], 0) BY <1>2, EmptySeq
<1>4. ASSUME NEW n \in 1..N, Sound(f[n - 1], n - 1) PROVE Sound(f[n], n)
  <2> DEFINE r == f[n - 1]
             t == f[n]
  <2>1. r \in Seq(Keys) /\ Len(r) \in Nat /\ q[n] \in Keys
    <3>1. n - 1 \in 0..N BY <1>1
    <3> QED BY <1>1, <1>2, <3>1, LenProperties
  <2>2. t = IF q[n] \in S THEN Append(r, q[n]) ELSE r BY <1>2
  <2>3. Sound(r, n - 1) BY <1>4
  <2> HIDE DEF r, t
  <2>4. \A j \in 1..n : j = n \/ j \in 1..n - 1 BY <1>1
  <2>5. CASE q[n] \notin S
    <3>1. t = r BY <2>2, <2>5
    <3>2. \A i \in 1..Len(t) : \E j \in i..n : q[j] = t[i] /\ q[j] \in S
      <4> TAKE i \in 1..Len(t)
      <4>1. PICK j \in i..n - 1 : q[j] = r[i] /\ q[j] \in S BY <2>3, <3>1
      <4>2. j \in i..n BY <2>1, <3>1
      <4> QED BY <3>1, <4>1, <4>2
    <3>3. \A j \in 1..n : q[j] \in S => \E i \in 1..Len(t) : t[i] = q[j] BY <2>3, <2>4, <2>5, <3>1
    <3> QED BY <2>3, <3>1, <3>2, <3>3 DEF t
  <2>6. CASE q[n] \in S
    <3>1. /\ t = Append(r, q[n]) /\ Len(t) = Len(r) + 1 /\ t[Len(r) + 1] = q[n]
          /\ \A i \in 1..Len(r) : t[i] = r[i]
      BY <2>1, <2>2, <2>6, AppendProperties
    <3>2. \A i \in 1..Len(t) : i \in 1..Len(r) \/ i = Len(r) + 1 BY <2>1, <3>1
    <3>3. Len(r) <= n - 1
      <4>1. CASE Len(r) = 0 BY <4>1, <1>1
      <4>2. CASE Len(r) # 0
        <5>1. Len(r) \in 1..Len(r) BY <2>1, <4>2
        <5>2. PICK j \in Len(r)..n - 1 : TRUE BY <2>3, <5>1
        <5> QED BY <2>1, <5>2
      <4> QED BY <4>1, <4>2
    <3>4. \A i \in 1..Len(t) : \E j \in i..n : q[j] = t[i] /\ q[j] \in S
      <4> TAKE i \in 1..Len(t)
      <4>1. CASE i = Len(r) + 1
        <5>1. n \in i..n BY <2>1, <3>3, <4>1
        <5> QED BY <2>6, <3>1, <4>1, <5>1
      <4>2. CASE i \in 1..Len(r)
        <5>1. PICK j \in i..n - 1 : q[j] = r[i] /\ q[j] \in S BY <2>3, <4>2
        <5>2. j \in i..n OBVIOUS
        <5> QED BY <3>1, <4>2, <5>1, <5>2
      <4> QED BY <3>2, <4>1, <4>2
    <3>5. \A j \in 1..n : q[j] \in S => \E i \in 1..Len(t) : t[i] = q[j]
      <4> TAKE j \in 1..n
      <4>1. CASE j = n
        <5>1. Len(r) + 1 \in 1..Len(t) BY <2>1, <3>1
        <5> QED BY <3>1, <4>1, <5>1
      <4>2. CASE j \in 1..n - 1 /\ q[j] \in S
        <5>1. PICK i \in 1..Len(r) : r[i] = q[j] BY <2>3, <4>2
        <5>2. i \in 1..Len(t) BY <2>1, <3>1
        <5> QED BY <3>1, <5>1, <5>2
      <4> QED BY <2>4, <4>1, <4>2
    <3>6. \A i \in 1..Len(r) : r[i] # q[n]
      <4> TAKE i \in 1..Len(r)
      <4>1. PICK j \in i..n - 1 : q[j] = r[i] BY <2>3
      <4>2. j \in 1..N /\ n \in 1..N /\ j # n BY <1>1, <2>1
      <4> QED BY <1>1, <4>1, <4>2
    <3>7. \A i, j \in 1..Len(t) : t[i] = t[j] => i = j BY <2>3, <3>1, <3>2, <3>6
    <3> QED BY <3>4, <3>5, <3>7 DEF t
  <2> QED BY <2>5, <2>6
<1> DEFINE T == {n \in 0..N : Sound(f[n], n)}
<1>5. 0 \in T /\ \A n \in 1..N : n - 1 \in T => n \in T
  <2> HIDE DEF Sound
  <2>1. \A n \in 1..N : n \in 0..N BY <1>1
  <2> QED BY <1>1, <1>3, <1>4, <2>1
<1> HIDE DEF T
<1>6. \A n \in 0..N : n \in T BY <1>1, <1>5, Upwards
<1>7. Sound(f[N], N)
  <2> HIDE DEF Sound
  <2> QED BY <1>1, <1>6 DEF T
<1> DEFINE r == Kept(q, S)
<1>8. r \in Seq(Keys) /\ Sound(r, N)
  <2> HIDE DEF Sound
  <2> QED BY <1>1, <1>2, <1>7
<1> HIDE DEF r
<1>9. r \in Rows /\ \A i \in 1..Len(r) : \E j \in i..N : q[j] = r[i] BY <1>8 DEF Rows
<1>10. ToSet(r) = ToSet(q) \cap S
  <2>1. ToSet(r) = {r[i] : i \in 1..Len(r)} /\ ToSet(q) = {q[i] : i \in 1..N} /\ Len(r) \in Nat
    BY <1>9, RowFacts DEF N
  <2>2. \A i \in 1..Len(r) : \E j \in 1..N : q[j] = r[i] /\ q[j] \in S
    <3> TAKE i \in 1..Len(r)
    <3>1. PICK j \in i..N : q[j] = r[i] /\ q[j] \in S BY <1>8
    <3>2. j \in 1..N BY <1>1, <2>1
    <3> QED BY <3>1, <3>2
  <2>3. \A j \in 1..N : q[j] \in S => \E i \in 1..Len(r) : r[i] = q[j] BY <1>8
  <2> HIDE DEF Sound
  <2>4. \A k \in ToSet(r) : k \in ToSet(q) /\ k \in S BY <2>1, <2>2
  <2>5. \A k \in ToSet(q) : k \in S => k \in ToSet(r) BY <2>1, <2>3
  <2> QED BY <2>4, <2>5
<1> QED BY <1>9, <1>10 DEF r, N

LEMMA EmptyRow == <<>> \in Rows /\ ToSet(<<>>) = {} /\ \A q \in Rows : q = <<>> <=> ToSet(q) = {}
<1>1. <<>> \in Seq(Keys) /\ Len(<<>>) = 0 BY EmptySeq
<1>2. <<>> \in Rows BY <1>1 DEF Rows
<1>3. ToSet(<<>>) = {} BY <1>1, <1>2, RowFacts
<1>4. \A q \in Rows : q # <<>> => ToSet(q) # {}
  <2> SUFFICES ASSUME NEW q \in Rows, q # <<>> PROVE ToSet(q) # {} OBVIOUS
  <2>1. q \in Seq(Keys) /\ ToSet(q) = {q[i] : i \in 1..Len(q)} BY RowFacts
  <2>2. 1 \in 1..Len(q) BY <2>1, EmptySeq
  <2> QED BY <2>1, <2>2
<1> QED BY <1>2, <1>3, <1>4

LEMMA ConcatRow ==
    ASSUME NEW q \in Rows, NEW r \in Rows, ToSet(q) \cap ToSet(r) = {}
    PROVE  q \o r \in Rows /\ ToSet(q \o r) = ToSet(q) \cup ToSet(r) /\ Len(q \o r) = Len(q) + Len(r)
<1> DEFINE t == q \o r
<1>1. /\ q \in Seq(Keys) /\ Len(q) \in Nat /\ ToSet(q) = {q[i] : i \in 1..Len(q)}
      /\ r \in Seq(Keys) /\ Len(r) \in Nat /\ ToSet(r) = {r[i] : i \in 1..Len(r)}
      /\ \A i, j \in 1..Len(q) : q[i] = q[j] => i = j
      /\ \A i, j \in 1..Len(r) : r[i] = r[j] => i = j
  BY RowFacts
<1>2. /\ t \in Seq(Keys) /\ Len(t) = Len(q) + Len(r)
      /\ \A i \in 1..Len(q) + Len(r) : t[i] = IF i <= Len(q) THEN q[i] ELSE r[i - Len(q)]
  BY <1>1, ConcatProperties
<1> HIDE DEF t
<1>3. /\ \A i \in 1..Len(q) : i \in 1..Len(t) /\ t[i] = q[i]
      /\ \A i \in 1..Len(r) : i + Len(q) \in 1..Len(t) /\ t[i + Len(q)] = r[i]
  <2>1. ASSUME NEW i \in 1..Len(r) PROVE i + Len(q) \in 1..Len(t) /\ t[i + Len(q)] = r[i]
    <3>1. i + Len(q) \in 1..Len(q) + Len(r) /\ ~(i + Len(q) <= Len(q)) /\ (i + Len(q)) - Len(q) = i
      BY <1>1
    <3> QED BY <1>2, <3>1
  <2>2. \A i \in 1..Len(q) : i \in 1..Len(t) /\ t[i] = q[i]
    <3> TAKE i \in 1..Len(q)
    <3>1. i \in 1..Len(q) + Len(r) /\ i <= Len(q) BY <1>1
    <3> QED BY <1>2, <3>1
  <2> QED BY <2>1, <2>2
<1>4. \A i \in 1..Len(t) : \/ i \in 1..Len(q) /\ t[i] = q[i]
                           \/ i - Len(q) \in 1..Len(r) /\ t[i] = r[i - Len(q)]
  BY <1>1, <1>2
<1>5. \A i, j \in 1..Len(t) : t[i] = t[j] => i = j
  <2> SUFFICES ASSUME NEW i \in 1..Len(t), NEW j \in 1..Len(t), t[i] = t[j] PROVE i = j OBVIOUS
  <2>1. CASE i \in 1..Len(q) /\ t[i] = q[i] /\ j \in 1..Len(q) /\ t[j] = q[j] BY <1>1, <2>1
  <2>2. CASE i - Len(q) \in 1..Len(r) /\ t[i] = r[i - Len(q)] /\ j - Len(q) \in 1..Len(r) /\ t[j] = r[j - Len(q)]
    <3>1. i - Len(q) = j - Len(q) BY <1>1, <2>2
    <3> QED BY <1>1, <1>2, <3>1
  <2>3. CASE i \in 1..Len(q) /\ t[i] = q[i] /\ j - Len(q) \in 1..Len(r) /\ t[j] = r[j - Len(q)]
    <3>1. t[i] \in ToSet(q) /\ t[j] \in ToSet(r) BY <1>1, <2>3
    <3> QED BY <3>1
  <2>4. CASE j \in 1..Len(q) /\ t[j] = q[j] /\ i - Len(q) \in 1..Len(r) /\ t[i] = r[i - Len(q)]
    <3>1. t[j] \in ToSet(q) /\ t[i] \in ToSet(r) BY <1>1, <2>4
    <3> QED BY <3>1
  <2> QED BY <1>4, <2>1, <2>2, <2>3, <2>4
<1>6. t \in Rows BY <1>2, <1>5 DEF Rows
<1>7. ToSet(t) = {t[i] : i \in 1..Len(t)} BY <1>6, RowFacts
<1>8. \A k \in ToSet(t) : k \in ToSet(q) \cup ToSet(r) BY <1>1, <1>4, <1>7
<1>9. \A k \in ToSet(q) : k \in ToSet(t) BY <1>1, <1>3, <1>7
<1>10. \A k \in ToSet(r) : k \in ToSet(t)
  <2> SUFFICES ASSUME NEW i \in 1..Len(r) PROVE r[i] \in ToSet(t) BY <1>1
  <2> QED BY <1>3, <1>7
<1> QED BY <1>2, <1>6, <1>8, <1>9, <1>10 DEF t

LEMMA OneRow == ASSUME NEW k \in Keys PROVE <<k>> \in Rows /\ ToSet(<<k>>) = {k} /\ Len(<<k>>) = 1
<1>1. <<k>> \in Seq(Keys) /\ Len(<<k>>) = 1 /\ <<k>>[1] = k OBVIOUS
<1>2. <<k>> \in Rows BY <1>1 DEF Rows
<1> QED BY <1>1, <1>2, RowFacts

LEMMA AppendRow ==
    ASSUME NEW q \in Rows, NEW k \in Keys, k \notin ToSet(q)
    PROVE  Append(q, k) \in Rows /\ ToSet(Append(q, k)) = ToSet(q) \cup {k}
<1>1. Append(q, k) = q \o <<k>> BY RowFacts, AppendIsConcat
<1> QED BY <1>1, OneRow, ConcatRow

\* A part of a row, and what it holds.
LEMMA PartRow ==
    ASSUME NEW q \in Rows, NEW m \in Nat \ {0}, NEW n \in 0..Len(q)
    PROVE  /\ SubSeq(q, m, n) \in Rows
           /\ Len(SubSeq(q, m, n)) = IF m <= n THEN n - m + 1 ELSE 0
           /\ ToSet(SubSeq(q, m, n)) = {q[i] : i \in m..n}
<1> DEFINE t == SubSeq(q, m, n)
<1>1. /\ Len(q) \in Nat /\ \A i \in 1..Len(q) : q[i] \in Keys
      /\ \A i, j \in 1..Len(q) : q[i] = q[j] => i = j
  BY RowFacts
<1>2. \A i \in m..n : i \in 1..Len(q) /\ q[i] \in Keys BY <1>1
<1>3. /\ t \in Seq(Keys) /\ Len(t) = IF m <= n THEN n - m + 1 ELSE 0
      /\ \A i \in 1..n - m + 1 : t[i] = q[m + i - 1]
  BY <1>2, SubSeqProperties
<1> HIDE DEF t
<1>4. \A i \in 1..Len(t) : m + i - 1 \in m..n /\ t[i] = q[m + i - 1] BY <1>3
<1>5. \A i, j \in 1..Len(t) : t[i] = t[j] => i = j
  <2> SUFFICES ASSUME NEW i \in 1..Len(t), NEW j \in 1..Len(t), t[i] = t[j] PROVE i = j OBVIOUS
  <2>1. m + i - 1 \in 1..Len(q) /\ m + j - 1 \in 1..Len(q) BY <1>2, <1>4
  <2>2. m + i - 1 = m + j - 1 BY <1>1, <1>4, <2>1
  <2> QED BY <2>2
<1>6. t \in Rows BY <1>3, <1>5 DEF Rows
<1>7. ToSet(t) = {t[i] : i \in 1..Len(t)} BY <1>6, RowFacts
<1>8. \A i \in m..n : i - m + 1 \in 1..Len(t) /\ t[i - m + 1] = q[i]
  <2> SUFFICES ASSUME NEW i \in m..n PROVE i - m + 1 \in 1..Len(t) /\ t[i - m + 1] = q[i] OBVIOUS
  <2>1. /\ i \in Int /\ m \in Int /\ n \in Int /\ m <= n
        /\ i - m + 1 \in 1..n - m + 1 /\ m + (i - m + 1) - 1 = i
    BY <1>1
  <2>2. Len(t) = n - m + 1 BY <1>3, <2>1
  <2>3. t[i - m + 1] = q[m + (i - m + 1) - 1] BY <1>3, <2>1
  <2> QED BY <2>1, <2>2, <2>3
<1>9. ToSet(t) = {q[i] : i \in m..n}
  <2>1. \A k \in ToSet(t) : k \in {q[i] : i \in m..n} BY <1>4, <1>7
  <2>2. \A i \in m..n : q[i] \in ToSet(t) BY <1>7, <1>8
  <2> QED BY <2>1, <2>2
<1> QED BY <1>3, <1>6, <1>9 DEF t

LEMMA InsertRow ==
    ASSUME NEW q \in Rows, NEW k \in Keys, k \notin ToSet(q), NEW i \in 1..Len(q) + 1
    PROVE  InsertAt(q, i, k) \in Rows /\ ToSet(InsertAt(q, i, k)) = ToSet(q) \cup {k}
<1> DEFINE a == SubSeq(q, 1, i - 1)
           b == SubSeq(q, i, Len(q))
<1>1. /\ Len(q) \in Nat /\ ToSet(q) = {q[j] : j \in 1..Len(q)}
      /\ \A j, l \in 1..Len(q) : q[j] = q[l] => j = l
  BY RowFacts
<1>2. a \in Rows /\ ToSet(a) = {q[j] : j \in 1..i - 1} BY <1>1, PartRow
<1>3. b \in Rows /\ ToSet(b) = {q[j] : j \in i..Len(q)} BY <1>1, PartRow
<1> HIDE DEF a, b
<1>4. ToSet(q) = ToSet(a) \cup ToSet(b)
  <2>1. \A j \in 1..Len(q) : j \in 1..i - 1 \/ j \in i..Len(q) BY <1>1
  <2>2. \A j \in 1..i - 1 : j \in 1..Len(q) BY <1>1
  <2>3. \A j \in i..Len(q) : j \in 1..Len(q) BY <1>1
  <2> QED BY <1>1, <1>2, <1>3, <2>1, <2>2, <2>3
<1>5. ToSet(a) \cap ToSet(b) = {}
  <2> SUFFICES ASSUME NEW j \in 1..i - 1, NEW l \in i..Len(q), q[j] = q[l] PROVE FALSE BY <1>2, <1>3
  <2>1. j \in 1..Len(q) /\ l \in 1..Len(q) /\ j # l BY <1>1
  <2> QED BY <1>1, <2>1
<1>6. a \o <<k>> \in Rows /\ ToSet(a \o <<k>>) = ToSet(a) \cup {k} BY <1>2, <1>4, OneRow, ConcatRow
<1>7. (a \o <<k>>) \o b \in Rows /\ ToSet((a \o <<k>>) \o b) = ToSet(q) \cup {k}
  BY <1>3, <1>4, <1>5, <1>6, ConcatRow
<1>8. InsertAt(q, i, k) = (a \o <<k>>) \o b BY DEF InsertAt, a, b
<1> QED BY <1>7, <1>8

\* A row is as long as it has keys.
LEMMA RowLength ==
    ASSUME NEW q \in Rows
    PROVE  /\ IsFiniteSet(ToSet(q)) /\ Cardinality(ToSet(q)) = Len(q)
           /\ Len(q) <= Cardinality(Keys) /\ Cardinality(Keys) \in Nat
<1>1. /\ q \in Seq(Keys) /\ Len(q) \in Nat /\ ToSet(q) = {q[i] : i \in 1..Len(q)} /\ ToSet(q) \subseteq Keys
      /\ \A i, j \in 1..Len(q) : q[i] = q[j] => i = j
  BY RowFacts
<1>2. IsFiniteSet(Keys) BY ReaderAssumption
<1>3. /\ IsFiniteSet(ToSet(q)) /\ Cardinality(ToSet(q)) <= Cardinality(Keys)
      /\ Cardinality(Keys) \in Nat /\ Cardinality(ToSet(q)) \in Nat
  BY <1>1, <1>2, FS_Subset, FS_CardinalityType
<1>4. ExistsBijection(1..Len(q), ToSet(q))
  <2>1. q \in [1..Len(q) -> ToSet(q)] BY <1>1, LenProperties
  <2>2. q \in Injection(1..Len(q), ToSet(q)) BY <1>1, <2>1 DEF Injection, IsInjective
  <2>3. q \in Surjection(1..Len(q), ToSet(q)) BY <1>1, <2>1 DEF Surjection
  <2> QED BY <2>2, <2>3 DEF ExistsBijection, Bijection
<1>5. Cardinality(ToSet(q)) = Len(q) BY <1>1, <1>3, <1>4, FS_CountingElements
<1> QED BY <1>3, <1>5

-----------------------------------------------------------------------------
(* The tab row.                                                                  *)

\* The sleeping tabs are gone through index by index.
LEMMA SortedSteps ==
    ASSUME NEW s, s.asleep \in Rows
    PROVE  \E f : /\ f[0] = <<>> /\ Sorted(s) = f[Cardinality(Keys)]
                  /\ \A n \in 1..Cardinality(Keys) :
                        f[n] = f[n - 1] \o Kept(s.asleep, {k \in Keys : s.marks[k].index = n - 1})
<1> DEFINE D == Seq(Keys)
           N == Cardinality(Keys)
           Here(n) == Kept(s.asleep, {k \in Keys : s.marks[k].index = n - 1})
           G == [n \in 1..N |-> [r \in D |-> r \o Here(n)]]
           Is(f) == f = [n \in 0..N |-> IF n = 0 THEN <<>> ELSE f[n - 1] \o Here(n)]
<1>1. N \in Nat /\ <<>> \in D BY EmptyRow, RowLength, EmptySeq
<1>2. \A n \in 1..N : Here(n) \in D BY KeptRow, RowFacts
<1> HIDE DEF Here
<1>3. \A n \in 1..N : \A r \in D : G[n][r] \in D BY <1>2, ConcatProperties
<1> HIDE DEF D, N
<1>4. PICK g \in [0..N -> D] : g[0] = <<>> /\ \A n \in 1..N : g[n] = G[n][g[n - 1]]
  <2> DEFINE base == <<>>
  <2>1. N \in Nat /\ base \in D BY <1>1
  <2> HIDE DEF G, base
  <2>2. \E f \in [0..N -> D] : Recurses(f, N, base, G) BY <1>3, <2>1, Recursion
  <2> QED BY <2>2 DEF base, Recurses
<1>5. \E f : Is(f)
  <2>1. ASSUME NEW n \in 0..N
        PROVE  g[n] = IF n = 0 THEN <<>> ELSE g[n - 1] \o Here(n)
    <3>1. CASE n = 0 BY <1>4, <3>1
    <3>2. CASE n # 0
      <4>1. n \in 1..N /\ n - 1 \in 0..N BY <1>1, <3>2
      <4> QED BY <1>4, <3>2, <4>1
    <3> QED BY <3>1, <3>2
  <2>2. Is(g) BY <1>4, <2>1
  <2> QED BY <2>2
<1> DEFINE h == CHOOSE f : Is(f)
<1>6. Is(h) BY <1>5
<1>7. Sorted(s) = h[N] BY DEF Sorted, N, Here
<1> HIDE DEF h
<1>8. h[0] = <<>> /\ \A n \in 1..N : h[n] = h[n - 1] \o Here(n)
  <2>1. \A n \in 0..N : h[n] = IF n = 0 THEN <<>> ELSE h[n - 1] \o Here(n) BY <1>6
  <2>2. 0 \in 0..N /\ \A n \in 1..N : n \in 0..N /\ n # 0 BY <1>1
  <2> QED BY <2>1, <2>2
<1> QED BY <1>7, <1>8 DEF N, Here

\* Of the sleeping tabs it holds those whose index is one, each once.
LEMMA SortedRow ==
    ASSUME NEW s, s.asleep \in Rows
    PROVE  /\ Sorted(s) \in Rows
           /\ \A k \in ToSet(Sorted(s)) : k \in Asleep(s) /\ s.marks[k].index \in Nat
<1> DEFINE N == Cardinality(Keys)
           Marked(n) == {k \in Keys : s.marks[k].index = n - 1}
<1>1. N \in Nat BY EmptyRow, RowLength
<1>2. PICK f : /\ f[0] = <<>> /\ Sorted(s) = f[N]
               /\ \A n \in 1..N : f[n] = f[n - 1] \o Kept(s.asleep, Marked(n))
  BY SortedSteps
<1> HIDE DEF N
<1> DEFINE Sound(r, n) == /\ r \in Rows
                          /\ \A k \in ToSet(r) : k \in Asleep(s) /\ s.marks[k].index \in 0..n - 1
           T == {n \in 0..N : Sound(f[n], n)}
<1>3. Sound(f[0], 0) BY <1>2, EmptyRow
<1>4. ASSUME NEW n \in 1..N, Sound(f[n - 1], n - 1) PROVE Sound(f[n], n)
  <2> DEFINE r == f[n - 1]
             t == Kept(s.asleep, Marked(n))
  <2>1. t \in Rows /\ ToSet(t) = Asleep(s) \cap Marked(n) BY KeptRow DEF Asleep
  <2>2. r \in Rows /\ \A k \in ToSet(r) : k \in Asleep(s) /\ s.marks[k].index \in 0..(n - 1) - 1 BY <1>4
  <2>3. f[n] = r \o t BY <1>2
  <2> HIDE DEF r, t
  <2>4. \A k \in ToSet(t) : k \in Asleep(s) /\ s.marks[k].index = n - 1 BY <2>1
  <2>5. ToSet(r) \cap ToSet(t) = {}
    <3> SUFFICES ASSUME NEW k, k \in ToSet(r), k \in ToSet(t) PROVE FALSE OBVIOUS
    <3> QED BY <1>1, <2>2, <2>4
  <2>6. r \o t \in Rows /\ ToSet(r \o t) = ToSet(r) \cup ToSet(t) BY <2>1, <2>2, <2>5, ConcatRow
  <2>7. \A k \in ToSet(r \o t) : k \in Asleep(s) /\ s.marks[k].index \in 0..n - 1
    <3> SUFFICES ASSUME NEW k \in ToSet(r) \cup ToSet(t) PROVE k \in Asleep(s) /\ s.marks[k].index \in 0..n - 1
      BY <2>6
    <3>1. CASE k \in ToSet(r) BY <1>1, <2>2, <3>1
    <3>2. CASE k \in ToSet(t)
      <4>1. n - 1 \in 0..n - 1 BY <1>1
      <4> QED BY <2>4, <3>2, <4>1
    <3> QED BY <3>1, <3>2
  <2> QED BY <2>3, <2>6, <2>7
<1>5. 0 \in T /\ \A n \in 1..N : n - 1 \in T => n \in T
  <2> HIDE DEF Sound
  <2>1. 0 \in 0..N /\ \A n \in 1..N : n \in 0..N BY <1>1
  <2> QED BY <1>3, <1>4, <2>1
<1> HIDE DEF T
<1>6. N \in T
  <2>1. \A n \in 0..N : n \in T BY <1>1, <1>5, Upwards
  <2> QED BY <1>1, <2>1
<1>7. Sound(f[N], N) BY <1>6 DEF T
<1> QED BY <1>1, <1>2, <1>7

\* A place in the tab row, for a tab whose bookmark names index i.
At(r, i) == 1 + (IF i < Len(r) THEN i ELSE Len(r))

LEMMA AtWithin == ASSUME NEW r \in Seq(Keys), NEW i \in Nat PROVE Len(r) \in Nat /\ At(r, i) \in 1..Len(r) + 1
BY LenProperties DEF At

LEMMA InsertSeq ==
    ASSUME NEW r \in Seq(Keys), NEW k \in Keys, NEW i \in 1..Len(r) + 1
    PROVE  InsertAt(r, i, k) \in Seq(Keys)
<1> DEFINE a == SubSeq(r, 1, i - 1)
           b == SubSeq(r, i, Len(r))
<1>1. Len(r) \in Nat /\ \A j \in 1..Len(r) : r[j] \in Keys BY LenProperties, ElementOfSeq
<1>2. a \in Seq(Keys) BY <1>1, SubSeqProperties
<1>3. b \in Seq(Keys) BY <1>1, SubSeqProperties
<1> HIDE DEF a, b
<1>4. <<k>> \in Seq(Keys) OBVIOUS
<1>5. a \o <<k>> \in Seq(Keys) BY <1>2, <1>4, ConcatProperties
<1>6. (a \o <<k>>) \o b \in Seq(Keys) BY <1>3, <1>5, ConcatProperties
<1>7. InsertAt(r, i, k) = (a \o <<k>>) \o b BY DEF InsertAt, a, b
<1> QED BY <1>6, <1>7

\* The rows of tabs are apart: no key is in two of them.
Apart(s) ==
    /\ s.order \in Rows /\ s.row \in Rows /\ s.asleep \in Rows
    /\ ToSet(s.order) \cap ToSet(s.row) = {}
    /\ Asleep(s) \cap (ToSet(s.order) \cup ToSet(s.row)) = {}

\* The sleeping tabs are put in one by one.
LEMMA TabsSteps ==
    ASSUME NEW s, Apart(s)
    PROVE  \E f : /\ f[0] = Kept(s.order, Awake(s)) \o s.row /\ Tabs(s) = f[Len(Sorted(s))]
                  /\ \A n \in 1..Len(Sorted(s)) :
                        f[n] = InsertAt(f[n - 1], At(f[n - 1], s.marks[Sorted(s)[n]].index), Sorted(s)[n])
<1> DEFINE D == Seq(Keys)
           q == Sorted(s)
           N == Len(q)
           base == Kept(s.order, Awake(s)) \o s.row
           Step(r, n) == InsertAt(r, At(r, s.marks[q[n]].index), q[n])
           G == [n \in 1..N |-> [r \in D |-> Step(r, n)]]
           Is(f) == f = [n \in 0..N |-> IF n = 0 THEN base ELSE Step(f[n - 1], n)]
<1>1. N \in Nat /\ \A n \in 1..N : q[n] \in Keys /\ s.marks[q[n]].index \in Nat
  <2>1. q \in Rows /\ \A k \in ToSet(q) : s.marks[k].index \in Nat BY SortedRow DEF Apart
  <2> QED BY <2>1, RowFacts
<1>2. base \in D
  <2>1. Kept(s.order, Awake(s)) \in D /\ s.row \in D BY KeptRow, RowFacts DEF Apart
  <2> QED BY <2>1, ConcatProperties
<1>3. \A n \in 1..N : \A r \in D : Step(r, n) \in D BY <1>1, AtWithin, InsertSeq
<1>4. Tabs(s) = (CHOOSE f : Is(f))[N] BY DEF Tabs, At
<1> HIDE DEF Step, base, N
<1>5. \A n \in 1..N : \A r \in D : G[n][r] \in D BY <1>3
<1> HIDE DEF D
<1>6. PICK g \in [0..N -> D] : g[0] = base /\ \A n \in 1..N : g[n] = G[n][g[n - 1]]
  <2> HIDE DEF G
  <2>1. N \in Nat /\ base \in D BY <1>1, <1>2
  <2>2. \E f \in [0..N -> D] : Recurses(f, N, base, G) BY <1>5, <2>1, Recursion
  <2> QED BY <2>2 DEF Recurses
<1>7. \E f : Is(f)
  <2>1. ASSUME NEW n \in 0..N
        PROVE  g[n] = IF n = 0 THEN base ELSE Step(g[n - 1], n)
    <3>1. CASE n = 0 BY <1>6, <3>1
    <3>2. CASE n # 0
      <4>1. n \in 1..N /\ n - 1 \in 0..N BY <1>1, <3>2
      <4> QED BY <1>6, <3>2, <4>1
    <3> QED BY <3>1, <3>2
  <2>2. Is(g) BY <1>6, <2>1
  <2> QED BY <2>2
<1> DEFINE h == CHOOSE f : Is(f)
<1>8. Is(h) BY <1>7
<1>9. Tabs(s) = h[N] BY <1>4
<1> HIDE DEF h
<1>10. h[0] = base /\ \A n \in 1..N : h[n] = Step(h[n - 1], n)
  <2>1. \A n \in 0..N : h[n] = IF n = 0 THEN base ELSE Step(h[n - 1], n) BY <1>8
  <2>2. 0 \in 0..N /\ \A n \in 1..N : n \in 0..N /\ n # 0 BY <1>1
  <2> QED BY <2>1, <2>2
<1> QED BY <1>9, <1>10 DEF N, base, Step

\* The tab row has each tab once: all that are awake, and of those asleep the ones
\* whose index is one.
LEMMA TabsRow ==
    ASSUME NEW s, Apart(s)
    PROVE  /\ Tabs(s) \in Rows
           /\ (ToSet(s.order) \cap Awake(s)) \cup ToSet(s.row) \subseteq ToSet(Tabs(s))
           /\ ToSet(Tabs(s)) \subseteq (ToSet(s.order) \cap Awake(s)) \cup ToSet(s.row) \cup Asleep(s)
<1> DEFINE q == Sorted(s)
           N == Len(q)
           base == Kept(s.order, Awake(s)) \o s.row
           First == (ToSet(s.order) \cap Awake(s)) \cup ToSet(s.row)
           Put(n) == {q[i] : i \in 1..n}
           Sound(r, n) == r \in Rows /\ ToSet(r) = First \cup Put(n)
           T(f) == {n \in 0..N : Sound(f[n], n)}
<1>1. /\ N \in Nat /\ q \in Rows /\ ToSet(q) = Put(N)
      /\ \A i \in 1..N : q[i] \in Keys /\ q[i] \in Asleep(s) /\ s.marks[q[i]].index \in Nat
      /\ \A i, j \in 1..N : q[i] = q[j] => i = j
  <2>1. q \in Rows /\ \A k \in ToSet(q) : k \in Asleep(s) /\ s.marks[k].index \in Nat BY SortedRow DEF Apart
  <2> QED BY <2>1, RowFacts
<1>2. base \in Rows /\ ToSet(base) = First
  <2>1. Kept(s.order, Awake(s)) \in Rows /\ ToSet(Kept(s.order, Awake(s))) = ToSet(s.order) \cap Awake(s)
    BY KeptRow DEF Apart
  <2>2. s.row \in Rows /\ (ToSet(s.order) \cap Awake(s)) \cap ToSet(s.row) = {} BY DEF Apart
  <2> QED BY <2>1, <2>2, ConcatRow
<1>3. First \cap Asleep(s) = {} BY DEF Apart
<1>4. PICK f : /\ f[0] = base /\ Tabs(s) = f[N]
               /\ \A n \in 1..N : f[n] = InsertAt(f[n - 1], At(f[n - 1], s.marks[q[n]].index), q[n])
  BY TabsSteps
<1> HIDE DEF q, N, base, First
<1>5. Sound(f[0], 0)
  <2>1. Put(0) = {} OBVIOUS
  <2> QED BY <1>2, <1>4, <2>1
<1>6. ASSUME NEW n \in 1..N, Sound(f[n - 1], n - 1) PROVE Sound(f[n], n)
  <2> DEFINE r == f[n - 1]
  <2>1. r \in Rows /\ ToSet(r) = First \cup Put(n - 1) BY <1>6
  <2>2. f[n] = InsertAt(r, At(r, s.marks[q[n]].index), q[n]) BY <1>4
  <2> HIDE DEF r
  <2>3. q[n] \in Keys /\ q[n] \in Asleep(s) /\ s.marks[q[n]].index \in Nat BY <1>1
  <2>4. q[n] \notin Put(n - 1)
    <3> SUFFICES ASSUME NEW i \in 1..n - 1, q[n] = q[i] PROVE FALSE OBVIOUS
    <3>1. i \in 1..N /\ i # n BY <1>1
    <3> QED BY <1>1, <3>1
  <2>5. q[n] \notin ToSet(r) BY <1>3, <2>1, <2>3, <2>4
  <2>6. At(r, s.marks[q[n]].index) \in 1..Len(r) + 1 BY <2>1, <2>3, RowFacts, AtWithin
  <2>7. f[n] \in Rows /\ ToSet(f[n]) = ToSet(r) \cup {q[n]} BY <2>1, <2>2, <2>3, <2>5, <2>6, InsertRow
  <2>8. Put(n) = Put(n - 1) \cup {q[n]}
    <3>1. \A i \in 1..n : i \in 1..n - 1 \/ i = n BY <1>1
    <3>2. \A i \in 1..n - 1 : i \in 1..n BY <1>1
    <3>3. n \in 1..n BY <1>1
    <3> QED BY <3>1, <3>2, <3>3
  <2> HIDE DEF Put
  <2> QED BY <2>1, <2>7, <2>8
<1>7. 0 \in T(f) /\ \A n \in 1..N : n - 1 \in T(f) => n \in T(f)
  <2> HIDE DEF Sound
  <2>1. 0 \in 0..N /\ \A n \in 1..N : n \in 0..N BY <1>1
  <2> QED BY <1>5, <1>6, <2>1
<1> HIDE DEF T
<1>8. N \in T(f)
  <2>1. \A n \in 0..N : n \in T(f) BY <1>1, <1>7, Upwards
  <2> QED BY <1>1, <2>1
<1>9. Sound(Tabs(s), N)
  <2> HIDE DEF Sound
  <2> QED BY <1>4, <1>8 DEF T
<1>10. Put(N) \subseteq Asleep(s) BY <1>1
<1> HIDE DEF Put
<1> QED BY <1>9, <1>10 DEF First

LEMMA WithoutRow ==
    ASSUME NEW q \in Rows, NEW k
    PROVE  /\ Without(q, k) \in Rows /\ ToSet(Without(q, k)) = ToSet(q) \ {k}
           /\ \A i \in 1..Len(Without(q, k)) : \E j \in i..Len(q) : q[j] = Without(q, k)[i]
<1>1. ToSet(q) \subseteq Keys BY RowFacts
<1>2. ToSet(q) \cap (Keys \ {k}) = ToSet(q) \ {k} BY <1>1
<1> QED BY <1>2, KeptRow DEF Without

\* The place of a tab in the row.
LEMMA IndexIs ==
    ASSUME NEW s, Apart(s), NEW k \in Keys
    PROVE  /\ IndexOf(s, k) \in -1..Cardinality(Keys) - 1
           /\ k \in ToSet(Tabs(s)) => IndexOf(s, k) \in Nat
<1> DEFINE q == Tabs(s)
           I == {i \in 1..Len(q) : q[i] = k}
<1>1. q \in Rows BY TabsRow
<1>2. IndexOf(s, k) = (IF I # {} THEN Min(I) ELSE 0) - 1 BY DEF IndexOf, SelectInSeq
<1> HIDE DEF q
<1>3. Len(q) \in Nat /\ ToSet(q) = {q[i] : i \in 1..Len(q)} /\ Len(q) <= Cardinality(Keys) /\ Cardinality(Keys) \in Nat
  BY <1>1, RowFacts, RowLength
<1>4. ASSUME I # {} PROVE Min(I) \in 1..Len(q)
  <2>1. PICK i \in I : TRUE BY <1>4
  <2>2. \A j \in I : i = j BY <1>1, RowFacts
  <2>3. \A j \in I : i =< j BY <2>1, <2>2, <1>3
  <2>4. \E j \in I : \A l \in I : j =< l BY <2>1, <2>3
  <2> HIDE DEF I
  <2>5. Min(I) \in I BY <2>4 DEF Min
  <2> QED BY <2>5 DEF I
<1>5. k \in ToSet(q) => I # {} BY <1>3
<1> HIDE DEF I
<1>6. IndexOf(s, k) \in -1..Cardinality(Keys) - 1 /\ (I # {} => IndexOf(s, k) \in Nat)
  BY <1>2, <1>3, <1>4
<1> QED BY <1>5, <1>6 DEF q

\* What takes the place of an awake tab is another tab; there is none when no other is awake.
LEMMA NeighbourIs ==
    ASSUME NEW s, Apart(s), Awake(s) = ToSet(s.order) \cup ToSet(s.row), NEW k \in Awake(s)
    PROVE  /\ Neighbour(s, k) \in ((Awake(s) \cup Asleep(s)) \ {k}) \cup {None}
           /\ Neighbour(s, k) = None => Awake(s) \subseteq {k}
<1> DEFINE others == Without(Tabs(s), k)
           i == IndexOf(s, k) + 1
           at == IF i < Len(others) THEN i ELSE Len(others)
<1>1. /\ Tabs(s) \in Rows /\ Awake(s) \subseteq ToSet(Tabs(s))
      /\ ToSet(Tabs(s)) \subseteq Awake(s) \cup Asleep(s)
  BY TabsRow
<1>2. others \in Rows /\ ToSet(others) = ToSet(Tabs(s)) \ {k} BY <1>1, WithoutRow
<1>3. k \in Keys BY DEF Awake
<1>4. i \in Nat \ {0} BY <1>1, <1>3, IndexIs
<1>5. Neighbour(s, k) = IF others = <<>> THEN None ELSE others[at] BY DEF Neighbour
<1> HIDE DEF others, i
<1>6. CASE others = <<>>
  <2>1. ToSet(others) = {} BY <1>6, EmptyRow
  <2> QED BY <1>1, <1>2, <1>5, <1>6, <2>1
<1>7. CASE others # <<>>
  <2>1. Len(others) \in Nat \ {0} /\ ToSet(others) = {others[j] : j \in 1..Len(others)} /\ ToSet(others) \subseteq Keys
    BY <1>2, <1>7, RowFacts, EmptySeq
  <2>2. at \in 1..Len(others) BY <1>4, <2>1
  <2> HIDE DEF at
  <2>3. others[at] \in ToSet(others) BY <2>1, <2>2
  <2>4. others[at] # None BY <2>1, <2>3, ReaderAssumption
  <2> QED BY <1>1, <1>2, <1>5, <1>7, <2>3, <2>4
<1> QED BY <1>6, <1>7

-----------------------------------------------------------------------------
(* The PDFs past those that stay awake.                                          *)

PastOf(q) == {q[i] : i \in (AWAKE_READERS + 1)..Len(q)}

LEMMA PastShrinks ==
    ASSUME NEW q \in Rows, NEW k
    PROVE  PastOf(q) \subseteq ToSet(q) /\ PastOf(Without(q, k)) \subseteq PastOf(q)
<1>1. Len(q) \in Nat /\ ToSet(q) = {q[i] : i \in 1..Len(q)} /\ AWAKE_READERS \in Nat
  BY RowFacts, ReaderAssumption
<1>2. \A i \in (AWAKE_READERS + 1)..Len(q) : i \in 1..Len(q) BY <1>1
<1>3. PastOf(q) \subseteq ToSet(q) BY <1>1, <1>2 DEF PastOf
<1> DEFINE r == Without(q, k)
<1>4. r \in Rows /\ \A i \in 1..Len(r) : \E j \in i..Len(q) : q[j] = r[i] BY WithoutRow
<1> HIDE DEF r
<1>5. Len(r) \in Nat BY <1>4, RowFacts
<1>6. ASSUME NEW i \in (AWAKE_READERS + 1)..Len(r) PROVE r[i] \in PastOf(q)
  <2>1. i \in 1..Len(r) BY <1>1, <1>5
  <2>2. PICK j \in i..Len(q) : q[j] = r[i] BY <1>4, <2>1
  <2>3. j \in (AWAKE_READERS + 1)..Len(q) BY <1>1, <1>5
  <2> QED BY <2>2, <2>3 DEF PastOf
<1>7. PastOf(r) \subseteq PastOf(q) BY <1>6 DEF PastOf
<1> QED BY <1>3, <1>7 DEF r

-----------------------------------------------------------------------------
(* What holds of the reader between any two of its operations.                   *)

Marks == [at : Pages \cup {0}, index : -1..Cardinality(Keys) - 1]
States ==
    [held : [Keys -> Held], row : Rows, marks : [Keys -> Marks], asleep : Rows, recent : Rows,
     focus : Keys \cup {None}, laidOut : SUBSET Keys, parked : [Keys -> Pages \cup {0}],
     order : Rows, active : Keys \cup {None}, at : [Keys -> Pages \cup {0}],
     work : [Keys -> {"saved", "unsaved", "refused"}],
     loads : SUBSET Loadings,
     settling : SUBSET [key : Keys, by : {"close", "sleep", "drowsy"}, current : BOOLEAN]]

OpenKeys(s) == {k \in Keys : s.held[k].status = "open"}
Coming(s) == {k \in Keys : s.held[k].status \in {"loading", "failed"}}
LoadingKeys(s) == {k \in Keys : s.held[k].status = "loading"}

\* The tabs that EmbedPDF holds a document of: open ones, and ones it could not open.
Docs(s) == Awake(s) \ ToSet(s.row)

\* Every open PDF past those that stay awake settles, or is spared.
Drowsing(s, excused) ==
    \A k \in PastOf(s.recent) \cap OpenKeys(s) :
        k \in excused \/ \E t \in s.settling : t.key = k /\ t.current

\* The load l, waited for, is of a tab that loads, or that is open, with no layout yet, once
\* EmbedPDF has the bytes.
Pending(s, l) ==
    /\ l.taken \/ l.index = -1
    /\ l.current => /\ s.held[l.key].status = IF l.taken THEN "open" ELSE "loading"
                    /\ l.key \notin s.laidOut

\* EmbedPDF holds the open PDFs, and besides only failed ones and those in leaving; what
\* waits for a PDF waits for it as it is.
Core(s, leaving, excused) ==
    /\ s \in States
    /\ ToSet(s.order) = Docs(s) \cup leaving
    /\ ToSet(s.row) \subseteq Coming(s) /\ LoadingKeys(s) \subseteq ToSet(s.row)
    /\ Asleep(s) \cap Awake(s) = {}
    /\ ToSet(s.recent) \subseteq Docs(s) /\ s.laidOut \subseteq OpenKeys(s)
    /\ \A l \in s.loads : Pending(s, l)
    /\ \A t \in s.settling : t.current => t.key \in OpenKeys(s)
    /\ \A k \in Keys : s.work[k] # "saved" => k \in s.laidOut
    /\ \A k \in s.laidOut : s.at[k] = s.parked[k] /\ s.at[k] # 0
    /\ Drowsing(s, excused)

LEMMA StatusIs ==
    ASSUME NEW s \in States
    PROVE  /\ Awake(s) = OpenKeys(s) \cup Coming(s) /\ OpenKeys(s) \cap Coming(s) = {}
           /\ OpenKeys(s) \subseteq Keys /\ Awake(s) \subseteq Keys /\ None \notin Keys
           /\ \A k \in Keys \cup {None} : IsOpen(s, k) <=> k \in OpenKeys(s)
           /\ \A k \in Keys : s.held[k] \in Held
<1>1. s.held \in [Keys -> Held] BY DEF States
<1>2. \A k \in Keys : s.held[k] \in Held /\ s.held[k].status \in {"none", "loading", "failed", "open"}
  BY <1>1 DEF Held
<1>3. None \notin Keys BY ReaderAssumption
<1> QED BY <1>2, <1>3 DEF Awake, OpenKeys, Coming, IsOpen

\* A document of EmbedPDF is of a tab that is open or failed.
LEMMA DocsAre ==
    ASSUME NEW s, NEW leaving, NEW excused, Core(s, leaving, excused)
    PROVE  /\ OpenKeys(s) \subseteq Docs(s) /\ Docs(s) \subseteq Awake(s) /\ Docs(s) \subseteq Keys
           /\ Docs(s) \cap LoadingKeys(s) = {} /\ ToSet(s.row) \subseteq Awake(s)
<1>1. s \in States /\ ToSet(s.row) \subseteq Coming(s) /\ LoadingKeys(s) \subseteq ToSet(s.row) BY DEF Core
<1> QED BY <1>1, StatusIs DEF Docs

LEMMA CoreApart ==
    ASSUME NEW s, NEW excused, Core(s, {}, excused)
    PROVE  Apart(s) /\ Awake(s) = ToSet(s.order) \cup ToSet(s.row)
<1>1. s \in States /\ s.order \in Rows /\ s.row \in Rows /\ s.asleep \in Rows BY DEF Core, States
<1>2. /\ ToSet(s.order) = Docs(s) /\ ToSet(s.row) \subseteq Awake(s) /\ Asleep(s) \cap Awake(s) = {}
  BY DocsAre DEF Core
<1> QED BY <1>1, <1>2, StatusIs DEF Apart, Docs

\* EmbedPDF shows k: what the tabs hold stays, and the focus moves to k unless a tab loads.
Framed(s, t) ==
    /\ t.held = s.held /\ t.row = s.row /\ t.marks = s.marks /\ t.asleep = s.asleep
    /\ t.laidOut = s.laidOut /\ t.parked = s.parked /\ t.work = s.work /\ t.loads = s.loads

LEMMA FramedSame ==
    ASSUME NEW s, NEW t, Framed(s, t)
    PROVE  /\ OpenKeys(t) = OpenKeys(s) /\ Coming(t) = Coming(s) /\ Awake(t) = Awake(s) /\ Asleep(t) = Asleep(s)
           /\ LoadingKeys(t) = LoadingKeys(s) /\ Docs(t) = Docs(s)
           /\ \A l : Pending(s, l) => Pending(t, l)
BY DEF Framed, OpenKeys, Coming, Awake, Asleep, LoadingKeys, Docs, Pending

IsLoading(s, k) == k # None /\ s.held[k].status = "loading"

LEMMA SetActiveKeeps ==
    ASSUME NEW s, NEW leaving, NEW excused, Core(s, leaving, excused), NEW k \in Docs(s)
    PROVE  /\ Core(SetActive(s, k), leaving, excused) /\ Framed(s, SetActive(s, k))
           /\ SetActive(s, k).order = s.order /\ SetActive(s, k).at = s.at
           /\ SetActive(s, k).active = k
           /\ SetActive(s, k).focus \in {s.focus, k}
           /\ s.active # k /\ ~IsLoading(s, s.focus) => SetActive(s, k).focus = k
           /\ IsLoading(s, s.focus) => SetActive(s, k).focus = s.focus
<1>1. s \in States /\ k \in Keys BY DocsAre DEF Core
<1>2. CASE s.active = k BY <1>1, <1>2 DEF SetActive, Framed
<1>3. CASE s.active # k
  <2> DEFINE a == [s EXCEPT !.active = k]
             focus == IF IsLoading(s, s.focus) THEN s.focus ELSE k
             recent == <<k>> \o Without(s.recent, k)
             b == [a EXCEPT !.focus = focus, !.recent = recent]
             new == {Task(j, "drowsy") : j \in {j \in Past(b) : IsOpen(b, j)}}
             t == [b EXCEPT !.settling = b.settling \cup new]
  <2>1. a.focus = s.focus /\ a.held = s.held /\ a.recent = s.recent BY <1>1 DEF States
  <2>2. SetActive(s, k) = t BY <1>3, <2>1 DEF SetActive, SleepDrowsy, Activated, IsLoading
  <2>3. recent \in Rows /\ ToSet(recent) = ToSet(s.recent) \cup {k}
    <3>1. s.recent \in Rows BY <1>1 DEF States
    <3>2. Without(s.recent, k) \in Rows /\ ToSet(Without(s.recent, k)) = ToSet(s.recent) \ {k}
      BY <3>1, WithoutRow
    <3>3. <<k>> \in Rows /\ ToSet(<<k>>) = {k} BY <1>1, OneRow
    <3>4. ToSet(<<k>>) \cap ToSet(Without(s.recent, k)) = {} BY <3>2, <3>3
    <3>5. recent \in Rows /\ ToSet(recent) = ToSet(<<k>>) \cup ToSet(Without(s.recent, k))
      BY <3>2, <3>3, <3>4, ConcatRow
    <3> QED BY <3>2, <3>3, <3>5
  <2>4. focus \in Keys \cup {None} /\ focus \in {s.focus, k} BY <1>1 DEF States
  <2> HIDE DEF focus, recent
  <2>5. b \in States /\ b.held = s.held /\ b.recent = recent /\ b.settling = s.settling
    BY <1>1, <2>3, <2>4 DEF States
  <2>6. Past(b) = PastOf(recent) /\ PastOf(recent) \subseteq ToSet(recent)
    BY <2>3, <2>5, PastShrinks DEF Past, PastOf
  <2>7. ToSet(recent) \subseteq Docs(s) /\ ToSet(recent) \subseteq Keys BY <2>3, DocsAre DEF Core
  <2>8. new = {Task(j, "drowsy") : j \in PastOf(recent) \cap OpenKeys(s)}
    <3>1. OpenKeys(b) = OpenKeys(s) BY <2>5 DEF OpenKeys
    <3>2. \A j \in PastOf(recent) : IsOpen(b, j) <=> j \in OpenKeys(s) BY <2>5, <2>6, <2>7, <3>1, StatusIs
    <3> QED BY <2>6, <3>2
  <2> HIDE DEF new
  <2>9. new \in SUBSET [key : Keys, by : {"close", "sleep", "drowsy"}, current : BOOLEAN]
    <3>1. ASSUME NEW j \in PastOf(recent) \cap OpenKeys(s)
          PROVE  Task(j, "drowsy") \in [key : Keys, by : {"close", "sleep", "drowsy"}, current : BOOLEAN]
      <4>1. j \in Keys BY <2>6, <2>7
      <4> QED BY <4>1 DEF Task
    <3> QED BY <2>8, <3>1
  <2>10. /\ t \in States /\ Framed(s, t) /\ t.order = s.order /\ t.at = s.at /\ t.active = k
         /\ t.focus = focus /\ t.recent = recent /\ t.settling = s.settling \cup new
    <3>1. b.settling \cup new \in SUBSET [key : Keys, by : {"close", "sleep", "drowsy"}, current : BOOLEAN]
      BY <2>5, <2>9 DEF States
    <3>2. t \in States BY <2>5, <3>1 DEF States
    <3>3. Framed(s, b) /\ b.order = s.order /\ b.at = s.at /\ b.active = k /\ b.focus = focus
      BY <1>1 DEF States, Framed
    <3>4. Framed(b, t) /\ t.order = b.order /\ t.at = b.at /\ t.active = b.active /\ t.focus = b.focus
          /\ t.recent = b.recent /\ t.settling = b.settling \cup new
      <4> HIDE DEF b
      <4> QED BY <2>5 DEF States, Framed
    <3> HIDE DEF t, b
    <3> QED BY <2>5, <3>2, <3>3, <3>4 DEF Framed
  <2> HIDE DEF t
  <2>11. Drowsing(t, excused)
    <3>1. \A j \in PastOf(recent) \cap OpenKeys(s) : Task(j, "drowsy") \in t.settling BY <2>8, <2>10
    <3>2. OpenKeys(t) = OpenKeys(s) BY <2>10 DEF OpenKeys, Framed
    <3>3. \A j : Task(j, "drowsy").key = j /\ Task(j, "drowsy").current BY DEF Task
    <3> QED BY <2>10, <3>1, <3>2, <3>3 DEF Drowsing
  <2>12. \A u \in t.settling : u.current => u.key \in OpenKeys(s)
    <3>1. \A u \in new : u.key \in OpenKeys(s) BY <2>8 DEF Task
    <3> QED BY <2>10, <3>1 DEF Core
  <2>13. /\ OpenKeys(t) = OpenKeys(s) /\ Coming(t) = Coming(s) /\ Awake(t) = Awake(s) /\ Asleep(t) = Asleep(s)
         /\ LoadingKeys(t) = LoadingKeys(s) /\ Docs(t) = Docs(s)
         /\ \A l : Pending(s, l) => Pending(t, l)
    BY <2>10, FramedSame
  <2>14. Core(t, leaving, excused)
    BY <2>7, <2>10, <2>11, <2>12, <2>13 DEF Core, Framed
  <2> QED BY <2>2, <2>4, <2>10, <2>14 DEF focus
<1> QED BY <1>2, <1>3

\* EmbedPDF closes k: another PDF is shown when k was and there is one.
LEMMA CloseDocumentKeeps ==
    ASSUME NEW s, NEW excused, NEW k \in Keys, Core(s, {k}, excused), k \notin Awake(s),
           NEW u \in CloseDocument(s, k)
    PROVE  /\ Core(u, {}, excused) /\ Framed(s, u)
           /\ s.active # k => u.active = s.active /\ u.focus = s.focus
           /\ s.active = k => /\ u.active \in Docs(u) \cup {None}
                              /\ u.focus = s.focus \/ (u.active = u.focus /\ u.focus \in Docs(u))
<1> DEFINE t == [s EXCEPT !.order = Without(s.order, k), !.at[k] = 0]
<1>1. s \in States /\ ToSet(s.order) = Docs(s) \cup {k} /\ k \notin Docs(s) BY DocsAre DEF Core
<1>2. Without(s.order, k) \in Rows /\ ToSet(Without(s.order, k)) = Docs(s)
  <2>1. s.order \in Rows BY <1>1 DEF States
  <2>2. Without(s.order, k) \in Rows /\ ToSet(Without(s.order, k)) = ToSet(s.order) \ {k}
    BY <2>1, WithoutRow
  <2>3. (Docs(s) \cup {k}) \ {k} = Docs(s) BY <1>1
  <2> QED BY <1>1, <2>2, <2>3
<1>3. /\ t \in States /\ Framed(s, t) /\ t.order = Without(s.order, k) /\ t.at = [s.at EXCEPT ![k] = 0]
      /\ t.active = s.active /\ t.focus = s.focus /\ t.recent = s.recent /\ t.settling = s.settling
  <2> DEFINE v == [s EXCEPT !.order = Without(s.order, k)]
  <2>1. /\ v \in States /\ Framed(s, v) /\ v.order = Without(s.order, k) /\ v.at = s.at
        /\ v.active = s.active /\ v.focus = s.focus /\ v.recent = s.recent /\ v.settling = s.settling
    BY <1>1, <1>2 DEF States, Framed
  <2>2. t = [v EXCEPT !.at = [s.at EXCEPT ![k] = 0]] BY <1>1 DEF States
  <2>3. [s.at EXCEPT ![k] = 0] \in [Keys -> Pages \cup {0}] BY <1>1 DEF States
  <2> HIDE DEF v, t
  <2>4. /\ t \in States /\ Framed(v, t) /\ t.order = v.order /\ t.at = [s.at EXCEPT ![k] = 0]
        /\ t.active = v.active /\ t.focus = v.focus /\ t.recent = v.recent /\ t.settling = v.settling
    BY <2>1, <2>2, <2>3 DEF States, Framed
  <2> QED BY <2>1, <2>4 DEF Framed
<1>4. CloseDocument(s, k) = IF s.active # k THEN {t}
                            ELSE IF t.order = <<>> THEN {[t EXCEPT !.active = None]}
                            ELSE {SetActive(t, j) : j \in ToSet(t.order)}
  BY DEF CloseDocument
<1> HIDE DEF t
<1>5. /\ OpenKeys(t) = OpenKeys(s) /\ Coming(t) = Coming(s) /\ Awake(t) = Awake(s) /\ Asleep(t) = Asleep(s)
      /\ LoadingKeys(t) = LoadingKeys(s) /\ Docs(t) = Docs(s)
      /\ \A l : Pending(s, l) => Pending(t, l)
  BY <1>3, FramedSame
<1>6. Core(t, {}, excused)
  <2>1. \A j \in t.laidOut : t.at[j] = s.at[j]
    <3>1. \A j \in t.laidOut : j # k /\ j \in Keys BY <1>1, <1>3, StatusIs DEF Core, Framed
    <3>2. s.at \in [Keys -> Pages \cup {0}] BY <1>1 DEF States
    <3> QED BY <1>3, <3>1, <3>2
  <2>2. Drowsing(t, excused) BY <1>3, <1>5 DEF Core, Drowsing
  <2> QED BY <1>2, <1>3, <1>5, <2>1, <2>2 DEF Core, Framed
<1>7. CASE s.active # k BY <1>3, <1>4, <1>6, <1>7
<1>8. CASE s.active = k /\ t.order = <<>>
  <2>1. u = [t EXCEPT !.active = None] BY <1>4, <1>8
  <2>2. /\ u \in States /\ Framed(t, u) /\ u.order = t.order /\ u.at = t.at /\ u.active = None
        /\ u.focus = t.focus /\ u.recent = t.recent /\ u.settling = t.settling
    BY <1>3, <2>1 DEF States, Framed
  <2>3. /\ OpenKeys(u) = OpenKeys(t) /\ Coming(u) = Coming(t) /\ Awake(u) = Awake(t) /\ Asleep(u) = Asleep(t)
        /\ LoadingKeys(u) = LoadingKeys(t) /\ Docs(u) = Docs(t)
        /\ \A l : Pending(t, l) => Pending(u, l)
    BY <2>2, FramedSame
  <2>4. Drowsing(u, excused) BY <1>6, <2>2, <2>3 DEF Core, Drowsing
  <2>5. Core(u, {}, excused) BY <1>6, <2>2, <2>3, <2>4 DEF Core, Framed
  <2> QED BY <1>3, <1>8, <2>2, <2>5 DEF Framed
<1>9. CASE s.active = k /\ t.order # <<>>
  <2>1. PICK j \in ToSet(t.order) : u = SetActive(t, j) BY <1>4, <1>9
  <2>2. j \in Docs(t) BY <1>2, <1>3, <1>5, <2>1
  <2>3. /\ Core(u, {}, excused) /\ Framed(t, u) /\ u.active = j /\ u.focus \in {t.focus, j}
    BY <1>6, <2>1, <2>2, SetActiveKeeps
  <2>4. Docs(u) = Docs(t) BY <2>3, FramedSame
  <2> QED BY <1>3, <1>9, <2>2, <2>3, <2>4 DEF Framed
<1> QED BY <1>7, <1>8, <1>9

\* EmbedPDF shows the PDF of a tab, or none; and the one the tab row shows, when that is open.
Shown(s) == s.active \in Docs(s) \cup {None}
Faithful(s) == s.focus \in OpenKeys(s) => s.active = s.focus

LEMMA CloseShownKeeps ==
    ASSUME NEW s, NEW excused, NEW k \in Keys, Core(s, {k}, excused), k \notin Awake(s),
           s.active \in Docs(s) \cup {k, None}, s.focus # k,
           NEW u \in CloseShown(s, k, s.focus)
    PROVE  /\ Core(u, {}, excused) /\ Framed(s, u) /\ Shown(u) /\ Faithful(u)
           /\ u.focus = s.focus \/ u.focus \in Docs(u)
<1> DEFINE next == s.focus
           v == IF IsOpen(s, next) THEN SetActive(s, next) ELSE s
<1>1. s \in States /\ next \in Keys \cup {None} /\ u \in CloseDocument(v, k)
  BY DEF Core, States, CloseShown
<1>2. IsOpen(s, next) <=> next \in OpenKeys(s) BY <1>1, StatusIs
<1>3. /\ Core(v, {k}, excused) /\ Framed(s, v) /\ v.focus = next
      /\ next \in OpenKeys(s) => v.active = next
      /\ next \notin OpenKeys(s) => v.active = s.active
  <2>1. CASE next \in OpenKeys(s)
    <3>1. v = SetActive(s, next) BY <1>2, <2>1
    <3> HIDE DEF next, v
    <3>2. Core(v, {k}, excused) /\ Framed(s, v) /\ v.active = next /\ v.focus \in {s.focus, next}
      BY <2>1, <3>1, DocsAre, SetActiveKeeps
    <3> QED BY <2>1, <3>2 DEF next
  <2>2. CASE next \notin OpenKeys(s) BY <1>2, <2>2 DEF Framed
  <2> QED BY <2>1, <2>2
<1> HIDE DEF v, next
<1>4. Awake(v) = Awake(s) BY <1>3, FramedSame
<1>5. /\ Core(u, {}, excused) /\ Framed(v, u)
      /\ v.active # k => u.active = v.active /\ u.focus = v.focus
      /\ v.active = k => /\ u.active \in Docs(u) \cup {None}
                         /\ u.focus = v.focus \/ (u.active = u.focus /\ u.focus \in Docs(u))
  BY <1>1, <1>3, <1>4, CloseDocumentKeeps
<1>6. Framed(s, u) /\ OpenKeys(u) = OpenKeys(s) /\ Docs(u) = Docs(s) /\ OpenKeys(s) \subseteq Docs(s)
  <2>1. Framed(s, u) BY <1>3, <1>5 DEF Framed
  <2> QED BY <2>1, FramedSame, DocsAre
<1>7. v.active \in Docs(s) \cup {k, None} BY <1>3, <1>6
<1>8. Shown(u) BY <1>5, <1>6, <1>7 DEF Shown
<1>9. Faithful(u)
  <2>1. CASE v.active # k BY <1>3, <1>5, <1>6, <2>1 DEF Faithful
  <2>2. CASE v.active = k
    <3>1. next \notin OpenKeys(s) BY <1>3, <2>2 DEF next
    <3> QED BY <1>3, <1>5, <1>6, <2>2, <3>1 DEF Faithful
  <2> QED BY <2>1, <2>2
<1> QED BY <1>3, <1>5, <1>6, <1>8, <1>9 DEF next

\* Only the focus moves.
LEMMA FocusKeeps ==
    ASSUME NEW s, NEW leaving, NEW excused, Core(s, leaving, excused), NEW f \in Keys \cup {None}
    PROVE  LET t == [s EXCEPT !.focus = f]
           IN  /\ Core(t, leaving, excused) /\ Framed(s, t) /\ t.focus = f
               /\ t.active = s.active /\ t.at = s.at /\ t.order = s.order
<1> DEFINE t == [s EXCEPT !.focus = f]
<1>1. s \in States BY DEF Core
<1>2. /\ t \in States /\ Framed(s, t) /\ t.focus = f /\ t.active = s.active /\ t.at = s.at
      /\ t.order = s.order /\ t.recent = s.recent /\ t.settling = s.settling
  BY <1>1 DEF States, Framed
<1> HIDE DEF t
<1>3. /\ OpenKeys(t) = OpenKeys(s) /\ Coming(t) = Coming(s) /\ Awake(t) = Awake(s) /\ Asleep(t) = Asleep(s)
      /\ LoadingKeys(t) = LoadingKeys(s) /\ Docs(t) = Docs(s)
      /\ \A l : Pending(s, l) => Pending(t, l)
  BY <1>2, FramedSame
<1>4. Drowsing(t, excused) BY <1>2, <1>3 DEF Core, Drowsing
<1>5. Core(t, leaving, excused) BY <1>2, <1>3, <1>4 DEF Core, Framed
<1> QED BY <1>2, <1>5 DEF t

\* A tab that was not awake is shown, loading.
LEMMA LoadKeeps ==
    ASSUME NEW s, NEW excused, Core(s, {}, excused), NEW k \in Keys, k \notin Awake(s)
    PROVE  LET t == Open(s, k)
           IN  /\ Core(t, {}, excused) /\ OpenKeys(t) = OpenKeys(s) /\ Docs(t) = Docs(s)
               /\ Awake(t) = Awake(s) \cup {k}
               /\ Asleep(t) = Asleep(s) \ {k} /\ t.focus = k /\ t.active = s.active
               /\ t.work = s.work /\ \A j \in Keys \ {k} : t.marks[j] = s.marks[j]
<1> DEFINE asleep == Without(s.asleep, k)
           marks == [s.marks EXCEPT ![k] = NoMark]
           held == [s.held EXCEPT ![k] = [status |-> "loading", at |-> s.marks[k].at, index |-> s.marks[k].index]]
           row == Append(s.row, k)
           load == [key |-> k, taken |-> FALSE, index |-> -1, current |-> TRUE]
           loads == s.loads \cup {load}
           t == [s EXCEPT !.asleep = asleep, !.marks = marks, !.held = held, !.row = row, !.focus = k,
                          !.loads = loads]
<1>1. /\ s \in States /\ s.asleep \in Rows /\ s.row \in Rows
      /\ s.marks \in [Keys -> Marks] /\ s.held \in [Keys -> Held]
      /\ s.loads \in SUBSET Loadings
  BY DEF Core, States
<1>2. Open(s, k) = t
  <2>1. k \notin ToSet(s.order) BY DocsAre DEF Core
  <2> QED BY <2>1 DEF Open
<1>3. asleep \in Rows /\ ToSet(asleep) = Asleep(s) \ {k} BY <1>1, WithoutRow DEF Asleep
<1>4. row \in Rows /\ ToSet(row) = ToSet(s.row) \cup {k}
  <2>1. k \notin ToSet(s.row) BY DocsAre
  <2> QED BY <1>1, <2>1, AppendRow
<1>5. /\ marks \in [Keys -> Marks] /\ \A j \in Keys \ {k} : marks[j] = s.marks[j]
      /\ held \in [Keys -> Held] /\ \A j \in Keys \ {k} : held[j] = s.held[j]
      /\ held[k].status = "loading"
  <2>1. NoMark \in Marks
    <3>1. Cardinality(Keys) \in Nat BY EmptyRow, RowLength
    <3> QED BY <3>1 DEF NoMark, Marks
  <2>2. [status |-> "loading", at |-> s.marks[k].at, index |-> s.marks[k].index] \in Held
    BY <1>1 DEF Marks, Held, Indices
  <2> QED BY <1>1, <2>1, <2>2
<1>6. loads \in SUBSET Loadings
  <2>1. Cardinality(Keys) \in Nat BY EmptyRow, RowLength
  <2>2. load \in Loadings BY <2>1 DEF Loadings, Indices
  <2> QED BY <1>1, <2>2
<1> HIDE DEF asleep, marks, held, row, loads
<1>7. t \in States BY <1>1, <1>3, <1>4, <1>5, <1>6 DEF States
<1>8. /\ t.asleep = asleep /\ t.marks = marks /\ t.held = held /\ t.row = row /\ t.focus = k /\ t.loads = loads
      /\ t.recent = s.recent /\ t.laidOut = s.laidOut /\ t.parked = s.parked /\ t.order = s.order
      /\ t.active = s.active /\ t.at = s.at /\ t.work = s.work /\ t.settling = s.settling
  BY <1>1 DEF States
<1> HIDE DEF t
<1>9. /\ OpenKeys(t) = OpenKeys(s) /\ Coming(t) = Coming(s) \cup {k} /\ Awake(t) = Awake(s) \cup {k}
      /\ Asleep(t) = Asleep(s) \ {k} /\ LoadingKeys(t) = LoadingKeys(s) \cup {k}
  <2>1. \A j \in Keys : s.held[j].status = "none" => j \notin OpenKeys(s) /\ j \notin Coming(s)
    BY DEF OpenKeys, Coming
  <2>2. s.held[k].status = "none" BY DEF Awake
  <2> QED BY <1>3, <1>5, <1>8, <2>1, <2>2 DEF OpenKeys, Coming, Awake, Asleep, LoadingKeys
<1>10. \A l \in t.loads : Pending(t, l)
  <2> SUFFICES ASSUME NEW l \in t.loads PROVE Pending(t, l) OBVIOUS
  <2>0. k \notin s.laidOut BY <1>1, StatusIs DEF Core
  <2>1. CASE l = load BY <1>5, <1>8, <2>0, <2>1 DEF Pending
  <2>2. CASE l \in s.loads
    <3>1. l.key \in Keys /\ Pending(s, l) BY <1>1, <2>2 DEF Core, Loadings
    <3>2. s.held[k].status = "none" BY DEF Awake
    <3>3. l.current => l.key # k BY <3>1, <3>2 DEF Pending
    <3> QED BY <1>5, <1>8, <3>1, <3>3 DEF Pending
  <2> QED BY <1>8, <2>1, <2>2 DEF loads
<1>11. Drowsing(t, excused) BY <1>8, <1>9 DEF Core, Drowsing
<1>12. Docs(t) = Docs(s)
  <2>1. k \notin Docs(s) BY DocsAre
  <2> QED BY <1>4, <1>8, <1>9, <2>1 DEF Docs
<1>13. /\ ToSet(t.row) \subseteq Coming(t) /\ LoadingKeys(t) \subseteq ToSet(t.row)
       /\ Asleep(t) \cap Awake(t) = {}
  BY <1>4, <1>8, <1>9 DEF Core
<1>14. Core(t, {}, excused) BY <1>7, <1>8, <1>9, <1>10, <1>11, <1>12, <1>13 DEF Core
<1> QED BY <1>2, <1>5, <1>8, <1>9, <1>12, <1>14

LEMMA ActivateKeeps ==
    ASSUME NEW s, NEW excused, Core(s, {}, excused), Shown(s), NEW k \in Awake(s)
    PROVE  LET t == Activate(s, k)
           IN  /\ Core(t, {}, excused) /\ Framed(s, t) /\ Shown(t) /\ Faithful(t) /\ t.focus = k
<1> DEFINE v == [s EXCEPT !.focus = k]
           t == Activate(s, k)
<1>1. k \in Keys BY DEF Awake
<1>2. Core(v, {}, excused) /\ Framed(s, v) /\ v.focus = k /\ v.active = s.active BY <1>1, FocusKeeps
<1>3. t = IF IsOpen(v, k) THEN SetActive(v, k) ELSE v BY DEF Activate
<1> HIDE DEF v, t
<1>4. IsOpen(v, k) <=> k \in OpenKeys(v) BY <1>1, <1>2, StatusIs DEF Core
<1>5. OpenKeys(v) = OpenKeys(s) /\ Docs(v) = Docs(s) /\ OpenKeys(v) \subseteq Docs(v)
  BY <1>2, FramedSame, DocsAre
<1>6. CASE k \in OpenKeys(v)
  <2>1. /\ Core(t, {}, excused) /\ Framed(v, t) /\ t.active = k /\ t.focus \in {v.focus, k}
    BY <1>2, <1>3, <1>4, <1>5, <1>6, SetActiveKeeps
  <2>2. Docs(t) = Docs(v) BY <2>1, FramedSame
  <2> QED BY <1>2, <1>5, <1>6, <2>1, <2>2 DEF Framed, Shown, Faithful, t
<1>7. CASE k \notin OpenKeys(v) BY <1>2, <1>3, <1>4, <1>5, <1>7 DEF Shown, Faithful, t
<1> QED BY <1>6, <1>7

\* Opening a tab, or showing it when it is awake.
LEMMA OpenKeeps ==
    ASSUME NEW s, NEW excused, Core(s, {}, excused), Shown(s), NEW k \in Keys
    PROVE  LET t == Open(s, k)
           IN  /\ Core(t, {}, excused) /\ Shown(t) /\ Faithful(t) /\ t.focus = k
               /\ Awake(t) = Awake(s) \cup {k} /\ Asleep(t) = Asleep(s) \ {k}
               /\ t.work = s.work /\ \A j \in Keys \ {k} : t.marks[j] = s.marks[j]
<1> DEFINE t == Open(s, k)
<1>1. CASE k \in Awake(s)
  <2>1. t = Activate(s, k) BY <1>1 DEF Open
  <2> HIDE DEF t
  <2>2. Core(t, {}, excused) /\ Framed(s, t) /\ Shown(t) /\ Faithful(t) /\ t.focus = k
    BY <1>1, <2>1, ActivateKeeps
  <2>3. Awake(t) = Awake(s) /\ Asleep(t) = Asleep(s) BY <2>2 DEF Awake, Asleep, Framed
  <2>4. k \notin Asleep(s) BY <1>1 DEF Core
  <2>5. Awake(t) = Awake(s) \cup {k} /\ Asleep(t) = Asleep(s) \ {k} BY <1>1, <2>3, <2>4
  <2> QED BY <2>2, <2>5 DEF Framed, t
<1>2. CASE k \notin Awake(s)
  <2> HIDE DEF t
  <2>1. /\ Core(t, {}, excused) /\ OpenKeys(t) = OpenKeys(s) /\ Docs(t) = Docs(s)
        /\ Awake(t) = Awake(s) \cup {k}
        /\ Asleep(t) = Asleep(s) \ {k} /\ t.focus = k /\ t.active = s.active
        /\ t.work = s.work /\ \A j \in Keys \ {k} : t.marks[j] = s.marks[j]
    BY <1>2, LoadKeeps DEF t
  <2>2. k \notin OpenKeys(s) BY <1>2, StatusIs DEF Core
  <2> QED BY <2>1, <2>2 DEF Shown, Faithful, t
<1> QED BY <1>1, <1>2

\* k has left the tab row, or sleeps in it with its mark, while EmbedPDF still holds it.
Left(s, k, mark, next) ==
    [s EXCEPT !.held[k] = NotHeld, !.row = Without(s.row, k),
              !.laidOut = s.laidOut \ {k}, !.parked[k] = 0,
              !.recent = Without(s.recent, k),
              !.work[k] = "saved", !.focus = next, !.marks[k] = mark,
              !.loads = Outdate(s.loads, k), !.settling = Outdate(s.settling, k),
              !.asleep = IF mark.at = 0 THEN Without(s.asleep, k)
                         ELSE Append(Without(s.asleep, k), k)]

LEMMA OutdateKeeps ==
    ASSUME NEW s \in States, NEW k
    PROVE  /\ Outdate(s.loads, k) \in SUBSET Loadings
           /\ Outdate(s.settling, k) \in
                 SUBSET [key : Keys, by : {"close", "sleep", "drowsy"}, current : BOOLEAN]
           /\ \A l \in Outdate(s.loads, k) : l.current => l \in s.loads /\ l.key # k
           /\ (\A l \in s.loads : l.taken \/ l.index = -1)
                 => \A l \in Outdate(s.loads, k) : l.taken \/ l.index = -1
           /\ \A t \in Outdate(s.settling, k) : t.current => t \in s.settling /\ t.key # k
           /\ \A t \in s.settling : t.key # k => t \in Outdate(s.settling, k)
<1>1. /\ s.loads \in SUBSET Loadings
      /\ s.settling \in SUBSET [key : Keys, by : {"close", "sleep", "drowsy"}, current : BOOLEAN]
  BY DEF States
<1>2. \A l \in s.loads : /\ [l EXCEPT !.current = FALSE] \in Loadings
                         /\ [l EXCEPT !.current = FALSE].current = FALSE
                         /\ [l EXCEPT !.current = FALSE].taken = l.taken
                         /\ [l EXCEPT !.current = FALSE].index = l.index
  BY <1>1 DEF Loadings
<1>3. \A t \in s.settling :
         /\ [t EXCEPT !.current = FALSE] \in [key : Keys, by : {"close", "sleep", "drowsy"}, current : BOOLEAN]
         /\ [t EXCEPT !.current = FALSE].current = FALSE
  BY <1>1
<1>4. \A l \in Outdate(s.loads, k) : \/ l \in s.loads /\ l.key # k
                                     \/ \E m \in s.loads : l = [m EXCEPT !.current = FALSE]
  BY DEF Outdate
<1>5. \A t \in Outdate(s.settling, k) : \/ t \in s.settling /\ t.key # k
                                        \/ \E m \in s.settling : t = [m EXCEPT !.current = FALSE]
  BY DEF Outdate
<1>6. \A t \in s.settling : t.key # k => t \in Outdate(s.settling, k) BY DEF Outdate
<1>7. /\ Outdate(s.loads, k) \in SUBSET Loadings
      /\ \A l \in Outdate(s.loads, k) : l.current => l \in s.loads /\ l.key # k
  <2> SUFFICES ASSUME NEW l \in Outdate(s.loads, k)
               PROVE  l \in Loadings /\ (l.current => l \in s.loads /\ l.key # k)
    OBVIOUS
  <2>1. CASE l \in s.loads /\ l.key # k BY <1>1, <2>1
  <2>2. CASE \E m \in s.loads : l = [m EXCEPT !.current = FALSE] BY <1>2, <2>2
  <2> QED BY <1>4, <2>1, <2>2
<1>8. ASSUME \A l \in s.loads : l.taken \/ l.index = -1, NEW l \in Outdate(s.loads, k)
      PROVE  l.taken \/ l.index = -1
  <2>1. CASE l \in s.loads BY <1>8, <2>1
  <2>2. CASE \E m \in s.loads : l = [m EXCEPT !.current = FALSE] BY <1>2, <1>8, <2>2
  <2> QED BY <1>4, <2>1, <2>2
<1> QED BY <1>1, <1>3, <1>5, <1>6, <1>7, <1>8

\* What a state t has of s, when k left it.
LeftAs(s, t, k, mark, next, excused) ==
    /\ Core(t, IF k \in OpenKeys(s) THEN {k} ELSE {}, excused)
    /\ OpenKeys(t) = OpenKeys(s) \ {k} /\ Awake(t) = Awake(s) \ {k} /\ Docs(t) = Docs(s) \ {k}
    /\ Asleep(t) = (Asleep(s) \ {k}) \cup (IF mark.at = 0 THEN {} ELSE {k})
    /\ t.focus = next /\ t.active = s.active /\ t.marks[k] = mark
    /\ \A j \in Keys \ {k} : t.marks[j] = s.marks[j] /\ t.work[j] = s.work[j]

LEMMA LeftKeeps ==
    ASSUME NEW s, NEW excused, Core(s, {}, excused), NEW k \in Keys, k \in Docs(s) => k \in OpenKeys(s),
           NEW mark \in Marks, NEW next \in Keys \cup {None}
    PROVE  LeftAs(s, Left(s, k, mark, next), k, mark, next, excused)
<1> DEFINE held == [s.held EXCEPT ![k] = NotHeld]
           row == Without(s.row, k)
           laidOut == s.laidOut \ {k}
           parked == [s.parked EXCEPT ![k] = 0]
           recent == Without(s.recent, k)
           work == [s.work EXCEPT ![k] = "saved"]
           marks == [s.marks EXCEPT ![k] = mark]
           loads == Outdate(s.loads, k)
           settling == Outdate(s.settling, k)
           asleep == IF mark.at = 0 THEN Without(s.asleep, k) ELSE Append(Without(s.asleep, k), k)
           t == [s EXCEPT !.held = held, !.row = row, !.laidOut = laidOut, !.parked = parked,
                          !.recent = recent, !.work = work, !.focus = next, !.marks = marks,
                          !.loads = loads, !.settling = settling, !.asleep = asleep]
<1>1. /\ s \in States /\ k \in Keys /\ s.asleep \in Rows /\ s.row \in Rows /\ s.recent \in Rows
      /\ s.marks \in [Keys -> Marks] /\ s.held \in [Keys -> Held]
      /\ s.parked \in [Keys -> Pages \cup {0}] /\ s.work \in [Keys -> {"saved", "unsaved", "refused"}]
      /\ s.laidOut \in SUBSET Keys
  BY DEF Core, States, Awake
<1>2. Left(s, k, mark, next) = t BY DEF Left
<1>3. asleep \in Rows /\ ToSet(asleep) = (Asleep(s) \ {k}) \cup (IF mark.at = 0 THEN {} ELSE {k})
  <2>1. Without(s.asleep, k) \in Rows /\ ToSet(Without(s.asleep, k)) = Asleep(s) \ {k}
    BY <1>1, WithoutRow DEF Asleep
  <2>2. /\ Append(Without(s.asleep, k), k) \in Rows
        /\ ToSet(Append(Without(s.asleep, k), k)) = (Asleep(s) \ {k}) \cup {k}
    BY <1>1, <2>1, AppendRow
  <2> QED BY <2>1, <2>2
<1>4. row \in Rows /\ ToSet(row) = ToSet(s.row) \ {k} BY <1>1, WithoutRow
<1>5. /\ recent \in Rows /\ ToSet(recent) = ToSet(s.recent) \ {k}
      /\ PastOf(recent) \subseteq PastOf(s.recent) /\ PastOf(recent) \subseteq ToSet(recent)
  BY <1>1, WithoutRow, PastShrinks
<1>6. /\ marks \in [Keys -> Marks] /\ marks[k] = mark /\ \A j \in Keys \ {k} : marks[j] = s.marks[j]
      /\ work \in [Keys -> {"saved", "unsaved", "refused"}] /\ work[k] = "saved"
      /\ \A j \in Keys \ {k} : work[j] = s.work[j]
  BY <1>1
<1>7. /\ held \in [Keys -> Held] /\ held[k].status = "none" /\ \A j \in Keys \ {k} : held[j] = s.held[j]
  <2>1. NotHeld \in Held /\ NotHeld.status = "none"
    <3>1. Cardinality(Keys) \in Nat BY EmptyRow, RowLength
    <3> QED BY <3>1 DEF NotHeld, Held, Indices
  <2> QED BY <1>1, <2>1
<1>8. /\ parked \in [Keys -> Pages \cup {0}] /\ \A j \in Keys \ {k} : parked[j] = s.parked[j]
      /\ laidOut \in SUBSET Keys
  BY <1>1
<1>9. /\ loads \in SUBSET Loadings
      /\ settling \in SUBSET [key : Keys, by : {"close", "sleep", "drowsy"}, current : BOOLEAN]
      /\ \A l \in loads : l.current => l \in s.loads /\ l.key # k /\ l.key \in Keys
      /\ \A l \in loads : l.taken \/ l.index = -1
      /\ \A u \in settling : u.current => u \in s.settling /\ u.key # k
      /\ \A u \in s.settling : u.key # k => u \in settling
  <2> HIDE DEF loads, settling
  <2>0. \A l \in s.loads : l.taken \/ l.index = -1 BY DEF Core, Pending
  <2>1. /\ loads \in SUBSET Loadings
        /\ settling \in SUBSET [key : Keys, by : {"close", "sleep", "drowsy"}, current : BOOLEAN]
        /\ \A l \in loads : l.current => l \in s.loads /\ l.key # k
        /\ \A l \in loads : l.taken \/ l.index = -1
        /\ \A u \in settling : u.current => u \in s.settling /\ u.key # k
        /\ \A u \in s.settling : u.key # k => u \in settling
    BY <1>1, <2>0, OutdateKeeps DEF loads, settling
  <2>2. \A l \in loads : l.key \in Keys BY <2>1 DEF Loadings
  <2> QED BY <2>1, <2>2
<1> HIDE DEF held, row, parked, recent, work, marks, loads, settling, asleep
<1>10. /\ t \in States /\ t.held = held /\ t.row = row /\ t.laidOut = laidOut /\ t.parked = parked
       /\ t.recent = recent /\ t.work = work /\ t.focus = next /\ t.marks = marks
       /\ t.loads = loads /\ t.settling = settling /\ t.asleep = asleep
       /\ t.order = s.order /\ t.active = s.active /\ t.at = s.at
  <2> DEFINE u == [s EXCEPT !.held = held, !.row = row, !.laidOut = laidOut, !.parked = parked]
             v == [u EXCEPT !.recent = recent, !.work = work, !.focus = next, !.marks = marks]
             w == [v EXCEPT !.loads = loads, !.settling = settling, !.asleep = asleep]
  <2>1. /\ u \in States /\ u.held = held /\ u.row = row /\ u.laidOut = laidOut /\ u.parked = parked
        /\ u.order = s.order /\ u.active = s.active /\ u.at = s.at
    BY <1>1, <1>4, <1>7, <1>8 DEF States
  <2>2. t = w OBVIOUS
  <2> HIDE DEF u, t
  <2>3. /\ v \in States /\ v.recent = recent /\ v.work = work /\ v.focus = next /\ v.marks = marks
        /\ v.held = u.held /\ v.row = u.row /\ v.laidOut = u.laidOut /\ v.parked = u.parked
        /\ v.order = u.order /\ v.active = u.active /\ v.at = u.at
    BY <1>5, <1>6, <2>1 DEF States
  <2> HIDE DEF v
  <2>4. /\ w \in States /\ w.loads = loads /\ w.settling = settling /\ w.asleep = asleep
        /\ w.recent = v.recent /\ w.work = v.work /\ w.focus = v.focus /\ w.marks = v.marks
        /\ w.held = v.held /\ w.row = v.row /\ w.laidOut = v.laidOut /\ w.parked = v.parked
        /\ w.order = v.order /\ w.active = v.active /\ w.at = v.at
    BY <1>3, <1>9, <2>3 DEF States
  <2> HIDE DEF w
  <2> QED BY <2>1, <2>2, <2>3, <2>4
<1> HIDE DEF t
<1>11. /\ OpenKeys(t) = OpenKeys(s) \ {k} /\ Coming(t) = Coming(s) \ {k} /\ Awake(t) = Awake(s) \ {k}
       /\ Asleep(t) = (Asleep(s) \ {k}) \cup (IF mark.at = 0 THEN {} ELSE {k})
       /\ LoadingKeys(t) = LoadingKeys(s) \ {k} /\ Docs(t) = Docs(s) \ {k}
  <2>1. Asleep(t) = ToSet(asleep) BY <1>10 DEF Asleep
  <2>2. \A j \in Keys \ {k} : t.held[j] = s.held[j] BY <1>7, <1>10
  <2>3. t.held[k].status = "none" BY <1>7, <1>10
  <2>4. OpenKeys(t) = OpenKeys(s) \ {k} BY <2>2, <2>3 DEF OpenKeys
  <2>5. Coming(t) = Coming(s) \ {k} BY <2>2, <2>3 DEF Coming
  <2>6. Awake(t) = Awake(s) \ {k} BY <2>2, <2>3 DEF Awake
  <2>7. LoadingKeys(t) = LoadingKeys(s) \ {k} BY <2>2, <2>3 DEF LoadingKeys
  <2>8. Docs(t) = Docs(s) \ {k} BY <1>4, <1>10, <2>6 DEF Docs
  <2> QED BY <1>3, <2>1, <2>4, <2>5, <2>6, <2>7, <2>8
<1>12. ToSet(t.order) = Docs(t) \cup (IF k \in OpenKeys(s) THEN {k} ELSE {})
  <2>1. ToSet(s.order) = Docs(s) /\ (k \in Docs(s) <=> k \in OpenKeys(s)) BY DocsAre DEF Core
  <2> QED BY <1>10, <1>11, <2>1
<1>13. Asleep(t) \cap Awake(t) = {} BY <1>11 DEF Core
<1>14. \A l \in t.loads : Pending(t, l)
  <2>1. \A l \in loads : l.current => Pending(s, l) /\ held[l.key] = s.held[l.key] BY <1>7, <1>9 DEF Core
  <2> QED BY <1>9, <1>10, <2>1 DEF Pending
<1>15. \A u \in t.settling : u.current => u.key \in OpenKeys(t) BY <1>9, <1>10, <1>11 DEF Core
<1>16. \A j \in Keys : t.work[j] # "saved" => j \in t.laidOut BY <1>6, <1>10 DEF Core
<1>17. \A j \in t.laidOut : t.at[j] = t.parked[j] /\ t.at[j] # 0 BY <1>1, <1>8, <1>10 DEF Core
<1>18. Drowsing(t, excused)
  <2> SUFFICES ASSUME NEW j \in PastOf(recent) \cap OpenKeys(t), j \notin excused
               PROVE  \E u \in t.settling : u.key = j /\ u.current
    BY <1>10 DEF Drowsing
  <2>1. j # k /\ j \in PastOf(s.recent) /\ j \in OpenKeys(s) BY <1>5, <1>11
  <2>2. PICK u \in s.settling : u.key = j /\ u.current BY <2>1 DEF Core, Drowsing
  <2> QED BY <1>9, <1>10, <2>1, <2>2
<1>19. /\ ToSet(t.recent) \subseteq Docs(t) /\ t.laidOut \subseteq OpenKeys(t)
       /\ ToSet(t.row) \subseteq Coming(t) /\ LoadingKeys(t) \subseteq ToSet(t.row)
  BY <1>4, <1>5, <1>10, <1>11 DEF Core
<1>20. Core(t, IF k \in OpenKeys(s) THEN {k} ELSE {}, excused)
  BY <1>10, <1>12, <1>13, <1>14, <1>15, <1>16, <1>17, <1>18, <1>19 DEF Core
<1>21. Left(s, k, mark, next) = t BY <1>2
<1>22. t.marks[k] = mark /\ \A j \in Keys \ {k} : t.marks[j] = s.marks[j] /\ t.work[j] = s.work[j]
  BY <1>6, <1>10
<1>23. LeftAs(s, t, k, mark, next, excused) BY <1>10, <1>11, <1>20, <1>22 DEF LeftAs
<1> QED BY <1>21, <1>23

\* A tab leaves: another tab takes its place, awake.
LEMMA RemoveTabKeeps ==
    ASSUME NEW s, NEW excused, Core(s, {}, excused), Shown(s), s.focus \in Awake(s) \cup {None},
           NEW k \in Keys, k \in Docs(s) => k \in OpenKeys(s),
           NEW mark \in Marks, NEW r \in RemoveTab(s, k, mark)
    PROVE  /\ Core(r, {}, excused) /\ Shown(r) /\ r.focus \in Awake(r) \cup {None} /\ k \notin Awake(r)
           /\ s.focus # None /\ Awake(r) # {} => r.focus # None
           /\ Awake(r) \subseteq Awake(s) \cup {r.focus}
           /\ Faithful(s) => Faithful(r) \/ (s.focus = k /\ k \notin OpenKeys(s))
           /\ r.marks[k] = mark /\ (mark.at = 0 => k \notin Asleep(r))
           /\ \A j \in Keys \ {k} : r.work[j] = s.work[j] /\ (j \in Asleep(r) => j \in Asleep(s))
<1> DEFINE next == IF s.focus = k THEN Neighbour(s, k) ELSE s.focus
           t == Left(s, k, mark, next)
<1>1. /\ s \in States /\ Apart(s) /\ Awake(s) = ToSet(s.order) \cup ToSet(s.row) /\ k \in Keys
      /\ Awake(s) \subseteq Keys /\ Asleep(s) \subseteq Keys /\ None \notin Keys
      /\ (IsOpen(s, k) <=> k \in OpenKeys(s))
  <2>1. s \in States /\ Apart(s) /\ Awake(s) = ToSet(s.order) \cup ToSet(s.row) BY CoreApart DEF Core
  <2>2. Asleep(s) \subseteq Keys BY <2>1, RowFacts DEF Apart, Asleep
  <2> QED BY <2>1, <2>2, StatusIs
<1>2. /\ next \in ((Awake(s) \cup Asleep(s)) \ {k}) \cup {None}
      /\ s.focus # None /\ next = None => Awake(s) \subseteq {k}
  <2>1. CASE s.focus = k
    <3>1. next = Neighbour(s, k) BY <2>1
    <3>2. k \in Awake(s) BY <1>1, <2>1
    <3> HIDE DEF next
    <3> QED BY <1>1, <3>1, <3>2, NeighbourIs
  <2>2. CASE s.focus # k BY <2>2
  <2> QED BY <2>1, <2>2
<1>3. PICK u \in (IF IsOpen(s, k) THEN CloseShown(t, k, next) ELSE {t}) : r = WakeSleeping(u, next)
  <2> DEFINE closed == IF IsOpen(s, k) THEN CloseShown(t, k, next) ELSE {t}
  <2>1. RemoveTab(s, k, mark) = {WakeSleeping(u, next) : u \in closed} BY DEF RemoveTab, Left
  <2> HIDE DEF closed, next, t
  <2>2. \E u \in closed : r = WakeSleeping(u, next) BY <2>1
  <2> QED BY <2>2 DEF closed
<1> HIDE DEF next, t
<1>4. next \in Keys \cup {None} /\ next # k BY <1>1, <1>2
<1>5. /\ Core(t, IF k \in OpenKeys(s) THEN {k} ELSE {}, excused)
      /\ OpenKeys(t) = OpenKeys(s) \ {k} /\ Awake(t) = Awake(s) \ {k} /\ Docs(t) = Docs(s) \ {k}
      /\ Asleep(t) \subseteq Asleep(s) \cup {k} /\ Asleep(s) \ {k} \subseteq Asleep(t)
      /\ mark.at = 0 => k \notin Asleep(t)
      /\ t.focus = next /\ t.active = s.active /\ t.marks[k] = mark
      /\ \A j \in Keys \ {k} : t.marks[j] = s.marks[j] /\ t.work[j] = s.work[j]
  <2>1. /\ Core(t, IF k \in OpenKeys(s) THEN {k} ELSE {}, excused)
        /\ OpenKeys(t) = OpenKeys(s) \ {k} /\ Awake(t) = Awake(s) \ {k} /\ Docs(t) = Docs(s) \ {k}
        /\ Asleep(t) = (Asleep(s) \ {k}) \cup (IF mark.at = 0 THEN {} ELSE {k})
        /\ t.focus = next /\ t.active = s.active /\ t.marks[k] = mark
        /\ \A j \in Keys \ {k} : t.marks[j] = s.marks[j] /\ t.work[j] = s.work[j]
    <3>1. LeftAs(s, Left(s, k, mark, next), k, mark, next, excused) BY <1>4, LeftKeeps
    <3>2. LeftAs(s, t, k, mark, next, excused) BY <3>1 DEF t
    <3> QED BY <3>2 DEF LeftAs
  <2>2. /\ Asleep(t) \subseteq Asleep(s) \cup {k} /\ Asleep(s) \ {k} \subseteq Asleep(t)
        /\ mark.at = 0 => k \notin Asleep(t)
    BY <2>1
  <2> QED BY <2>1, <2>2
<1>6. /\ Core(u, {}, excused) /\ Framed(t, u) /\ Shown(u)
      /\ u.focus = next \/ u.focus \in Docs(u)
      /\ Faithful(s) => Faithful(u) \/ (s.focus = k /\ k \notin OpenKeys(s))
  <2>1. CASE k \in OpenKeys(s)
    <3>1. u \in CloseShown(t, k, t.focus) BY <1>1, <1>3, <1>5, <2>1
    <3>2. Core(t, {k}, excused) /\ k \notin Awake(t) BY <1>5, <2>1
    <3>3. t.active \in Docs(t) \cup {k, None} /\ t.focus # k BY <1>4, <1>5 DEF Shown
    <3>4. /\ Core(u, {}, excused) /\ Framed(t, u) /\ Shown(u) /\ Faithful(u)
          /\ u.focus = t.focus \/ u.focus \in Docs(u)
      BY <1>1, <3>1, <3>2, <3>3, CloseShownKeeps
    <3> QED BY <1>5, <3>4
  <2>2. CASE k \notin OpenKeys(s)
    <3>1. u = t /\ Core(t, {}, excused) BY <1>1, <1>3, <1>5, <2>2
    <3>2. Shown(t) BY <1>5, <2>2 DEF Shown
    <3>3. ASSUME Faithful(s), s.focus # k PROVE Faithful(t)
      <4>1. next = s.focus BY <3>3 DEF next
      <4> QED BY <1>5, <3>3, <4>1 DEF Faithful
    <3> QED BY <1>5, <2>2, <3>1, <3>2, <3>3 DEF Framed
  <2> QED BY <2>1, <2>2
<1>7. OpenKeys(u) = OpenKeys(t) /\ Awake(u) = Awake(t) /\ Asleep(u) = Asleep(t)
  BY <1>6, FramedSame
<1>8. Docs(u) \subseteq Awake(u) /\ Docs(u) \subseteq Keys BY <1>6, DocsAre
<1>9. CASE next \in Asleep(u)
  <2>1. r = Open(u, next) /\ next \in Keys BY <1>1, <1>3, <1>5, <1>7, <1>9 DEF WakeSleeping
  <2>2. /\ Core(r, {}, excused) /\ Shown(r) /\ Faithful(r) /\ r.focus = next
        /\ Awake(r) = Awake(u) \cup {next} /\ Asleep(r) = Asleep(u) \ {next}
        /\ r.work = u.work /\ \A j \in Keys \ {next} : r.marks[j] = u.marks[j]
    BY <1>6, <2>1, OpenKeeps
  <2>3. next # None BY <1>1, <2>1
  <2>4. k \notin Awake(r) BY <1>4, <1>5, <1>7, <2>2
  <2>5. r.marks[k] = mark /\ (mark.at = 0 => k \notin Asleep(r)) BY <1>1, <1>4, <1>5, <1>6, <1>7, <2>2 DEF Framed
  <2>6. \A j \in Keys \ {k} : r.work[j] = s.work[j] /\ (j \in Asleep(r) => j \in Asleep(s))
    BY <1>5, <1>6, <1>7, <2>2 DEF Framed
  <2>7. Awake(r) \subseteq Awake(s) \cup {r.focus} BY <1>5, <1>7, <2>2
  <2> QED BY <2>2, <2>3, <2>4, <2>5, <2>6, <2>7
<1>10. CASE next \notin Asleep(u)
  <2>1. r = u BY <1>3, <1>10 DEF WakeSleeping
  <2>2. next \in Awake(u) \cup {None} BY <1>2, <1>5, <1>7, <1>10
  <2>3. k \notin Awake(u) BY <1>5, <1>7
  <2>4. s.focus # None /\ Awake(u) # {} => u.focus # None
    <3> SUFFICES ASSUME s.focus # None, u.focus = None PROVE Awake(u) = {} OBVIOUS
    <3>1. None \notin Docs(u) BY <1>1, <1>8
    <3>2. next = None BY <1>6, <3>1
    <3> QED BY <1>2, <1>5, <1>7, <3>2
  <2>5. u.focus \in Awake(u) \cup {None} BY <1>6, <1>8, <2>2
  <2>6. u.marks[k] = mark /\ (mark.at = 0 => k \notin Asleep(u)) BY <1>5, <1>6, <1>7 DEF Framed
  <2>7. \A j \in Keys \ {k} : u.work[j] = s.work[j] /\ (j \in Asleep(u) => j \in Asleep(s))
    BY <1>5, <1>6, <1>7 DEF Framed
  <2>8. Awake(u) \subseteq Awake(s) \cup {u.focus} BY <1>5, <1>7
  <2> QED BY <1>6, <2>1, <2>3, <2>4, <2>5, <2>6, <2>7, <2>8
<1> QED BY <1>9, <1>10

-----------------------------------------------------------------------------
(* What a step does to the reader, and that it stands after it.                  *)

\* The tab row shows an awake tab while there is one.
Focused(s) == s.focus \in Awake(s) \cup {None} /\ (Awake(s) # {} => s.focus # None)
Standing(s, excused) == Core(s, {}, excused) /\ Shown(s) /\ Focused(s)

\* The unsaved edits that are gone, and not by a save.
Lost(s, t) == {k \in Keys : s.work[k] # "saved" /\ t.work[k] = "saved" /\ t.held[k] # s.held[k]}

\* t may come after s: only a tab that goes leaves the tab row and EmbedPDF apart, and
\* a PDF that falls asleep does so where it was.
Follows(s, t) ==
    /\ Faithful(s) => Faithful(t) \/ (s.focus \notin Awake(t) /\ s.focus \notin OpenKeys(s))
    /\ \A k \in s.laidOut : k \in Asleep(t) => t.marks[k].at = s.at[k]

LEMMA OpenFollows ==
    ASSUME NEW s, NEW excused, Standing(s, excused), NEW k \in Keys
    PROVE  LET t == Open(s, k) IN Standing(t, excused) /\ Follows(s, t) /\ Lost(s, t) = {}
<1> DEFINE t == Open(s, k)
<1> HIDE DEF t
<1>1. /\ Core(t, {}, excused) /\ Shown(t) /\ Faithful(t) /\ t.focus = k
      /\ Awake(t) = Awake(s) \cup {k} /\ Asleep(t) = Asleep(s) \ {k} /\ t.work = s.work
  BY OpenKeeps DEF Standing, t
<1>2. None \notin Keys BY ReaderAssumption
<1>3. s.laidOut \cap Asleep(t) = {}
  <2>1. s.laidOut \subseteq Awake(s) /\ Asleep(s) \cap Awake(s) = {} BY StatusIs DEF Standing, Core
  <2> QED BY <1>1, <2>1
<1> QED BY <1>1, <1>2, <1>3 DEF Standing, Focused, Follows, Lost, t

LEMMA ShowFollows ==
    ASSUME NEW s, NEW excused, Standing(s, excused), NEW k \in Awake(s) \cup Asleep(s)
    PROVE  LET t == Show(s, k) IN Standing(t, excused) /\ Follows(s, t) /\ Lost(s, t) = {}
<1>1. s \in States /\ Awake(s) \subseteq Keys /\ Asleep(s) \subseteq Keys
  <2>1. s \in States /\ s.asleep \in Rows BY DEF Standing, Core, States
  <2> QED BY <2>1, StatusIs, RowFacts DEF Asleep
<1>2. CASE k \in Asleep(s) BY <1>1, <1>2, OpenFollows DEF Show
<1>3. CASE k \notin Asleep(s)
  <2> DEFINE t == Activate(s, k)
  <2>1. Show(s, k) = t BY <1>3 DEF Show
  <2> HIDE DEF t
  <2>2. Core(t, {}, excused) /\ Framed(s, t) /\ Shown(t) /\ Faithful(t) /\ t.focus = k
    BY <1>3, ActivateKeeps DEF Standing, t
  <2>3. Awake(t) = Awake(s) /\ Asleep(t) = Asleep(s) BY <2>2 DEF Framed, Awake, Asleep
  <2>4. None \notin Keys BY ReaderAssumption
  <2>5. s.laidOut \cap Asleep(t) = {}
    <3>1. s.laidOut \subseteq Awake(s) /\ Asleep(s) \cap Awake(s) = {} BY StatusIs DEF Standing, Core
    <3> QED BY <2>3, <3>1
  <2> QED BY <1>1, <1>3, <2>1, <2>2, <2>3, <2>4, <2>5 DEF Standing, Focused, Follows, Lost, Framed
<1> QED BY <1>2, <1>3

LEMMA RemoveFollows ==
    ASSUME NEW s, NEW excused, Standing(s, excused), NEW k \in Keys,
           k \in Docs(s) => k \in OpenKeys(s), NEW mark \in Marks,
           mark.at = 0 \/ (k \in s.laidOut => mark.at = s.at[k]), NEW t \in RemoveTab(s, k, mark)
    PROVE  /\ Standing(t, excused) /\ Follows(s, t) /\ k \notin Awake(t)
           /\ Lost(s, t) \subseteq {k} /\ (s.work[k] = "saved" => Lost(s, t) = {})
<1>1. /\ Core(t, {}, excused) /\ Shown(t) /\ t.focus \in Awake(t) \cup {None} /\ k \notin Awake(t)
      /\ s.focus # None /\ Awake(t) # {} => t.focus # None
      /\ Awake(t) \subseteq Awake(s) \cup {t.focus}
      /\ Faithful(s) => Faithful(t) \/ (s.focus = k /\ k \notin OpenKeys(s))
      /\ t.marks[k] = mark /\ (mark.at = 0 => k \notin Asleep(t))
      /\ \A j \in Keys \ {k} : t.work[j] = s.work[j] /\ (j \in Asleep(t) => j \in Asleep(s))
  BY RemoveTabKeeps DEF Standing, Focused
<1>2. Awake(t) # {} => t.focus # None
  <2>1. s.focus = None => Awake(s) = {} BY DEF Standing, Focused
  <2>2. None \notin Awake(t) BY ReaderAssumption DEF Awake
  <2> QED BY <1>1, <2>1, <2>2
<1>3. /\ s.laidOut \subseteq Awake(s) /\ Asleep(s) \cap Awake(s) = {} /\ Awake(s) \subseteq Keys
  BY StatusIs DEF Standing, Core
<1>4. \A j \in s.laidOut : j \in Asleep(t) => t.marks[j].at = s.at[j]
  <2> SUFFICES ASSUME NEW j \in s.laidOut, j \in Asleep(t) PROVE t.marks[j].at = s.at[j] OBVIOUS
  <2>1. j = k BY <1>1, <1>3
  <2> QED BY <1>1, <2>1
<1>5. Follows(s, t) BY <1>1, <1>4 DEF Follows
<1>6. Standing(t, excused) BY <1>1, <1>2 DEF Standing, Focused
<1>7. Lost(s, t) \subseteq {k} /\ (s.work[k] = "saved" => Lost(s, t) = {}) BY <1>1 DEF Lost
<1> QED BY <1>1, <1>5, <1>6, <1>7

\* A step that changes neither the tabs nor what is shown.
LEMMA AlikeFollows ==
    ASSUME NEW s, NEW excused, Standing(s, excused), NEW t \in States, NEW others,
           \A k \in Keys : t.held[k].status = s.held[k].status,
           t.order = s.order, t.row = s.row, t.asleep = s.asleep, t.recent = s.recent,
           t.focus = s.focus, t.active = s.active,
           t.laidOut \subseteq OpenKeys(s),
           \A l \in t.loads : Pending(t, l),
           \A u \in t.settling : u.current => u.key \in OpenKeys(s),
           \A k \in Keys : t.work[k] # "saved" => k \in t.laidOut,
           \A k \in t.laidOut : t.at[k] = t.parked[k] /\ t.at[k] # 0,
           Drowsing(t, others)
    PROVE  Standing(t, others) /\ Follows(s, t)
<1>1. /\ OpenKeys(t) = OpenKeys(s) /\ Coming(t) = Coming(s) /\ Awake(t) = Awake(s) /\ Asleep(t) = Asleep(s)
      /\ LoadingKeys(t) = LoadingKeys(s) /\ Docs(t) = Docs(s)
  BY DEF OpenKeys, Coming, Awake, Asleep, LoadingKeys, Docs
<1>2. Core(t, {}, others) BY <1>1 DEF Standing, Core
<1>3. Standing(t, others) BY <1>1, <1>2 DEF Standing, Shown, Focused
<1>4. Faithful(s) => Faithful(t) BY <1>1 DEF Faithful
<1>5. s.laidOut \cap Asleep(t) = {}
  <2>1. s.laidOut \subseteq Awake(s) /\ Asleep(s) \cap Awake(s) = {} BY StatusIs DEF Standing, Core
  <2> QED BY <1>1, <2>1
<1> QED BY <1>3, <1>4, <1>5 DEF Follows

-----------------------------------------------------------------------------
(* The invariant, and what each step of the reader does.                         *)

Inv == Standing(host, spared) /\ dialog \in Keys \cup {None} /\ spared \subseteq Keys

\* A step that keeps the invariant, that Follows, and that loses edits of no PDF but
\* those in lost.
Goes(lost) ==
    /\ Standing(host', spared') /\ dialog' \in Keys \cup {None} /\ spared' \subseteq Keys
    /\ Follows(host, host') /\ Lost(host, host') \subseteq lost

LEMMA Excuse ==
    ASSUME NEW s, NEW excused, Standing(s, excused), NEW others,
           \A k \in Past(s) : k \in excused => k \in others
    PROVE  Standing(s, others)
<1>1. Past(s) = PastOf(s.recent) BY DEF Past, PastOf
<1>2. Drowsing(s, others) BY <1>1 DEF Drowsing, Standing, Core
<1>3. Core(s, {}, others) BY <1>2 DEF Standing, Core
<1> QED BY <1>3 DEF Standing

LEMMA BecomeGoes ==
    ASSUME Inv, NEW t, Standing(t, spared), Become(t), UNCHANGED dialog,
           NEW lost, Follows(host, t), Lost(host, t) \subseteq lost
    PROVE  Goes(lost)
<1>1. host' = t /\ spared' = spared \cap Past(t) BY DEF Become
<1>2. Standing(t, spared \cap Past(t)) BY Excuse
<1> QED BY <1>1, <1>2 DEF Inv, Goes

LEMMA OpenReaderGoes == ASSUME Inv, NEW k \in Keys, OpenReader(k) PROVE Goes({})
<1> DEFINE t == Open(host, k)
<1>1. Standing(t, spared) /\ Follows(host, t) /\ Lost(host, t) = {} BY OpenFollows DEF Inv
<1>2. Become(t) /\ UNCHANGED dialog BY DEF OpenReader
<1> HIDE DEF t
<1> QED BY <1>1, <1>2, BecomeGoes

LEMMA ShowTabGoes == ASSUME Inv, NEW k \in Keys, ShowTab(k) PROVE Goes({})
<1> DEFINE t == Show(host, k)
<1>1. Become(t) /\ UNCHANGED dialog /\ k \in Awake(host) \cup Asleep(host) BY DEF ShowTab
<1>2. Standing(t, spared) /\ Follows(host, t) /\ Lost(host, t) = {} BY <1>1, ShowFollows DEF Inv
<1> HIDE DEF t
<1> QED BY <1>1, <1>2, BecomeGoes

LEMMA NoMarkIs == NoMark \in Marks /\ NoMark.at = 0
<1>1. Cardinality(Keys) \in Nat BY EmptyRow, RowLength
<1> QED BY <1>1 DEF NoMark, Marks

\* A tab that may go takes its document with it.
LEMMA RemovableIs ==
    ASSUME StrayDocuments = FALSE, Inv, NEW k \in Keys, Removable(k)
    PROVE  k \in Docs(host) => k \in OpenKeys(host)
<1>1. host \in States /\ ToSet(host.order) = Docs(host) BY DEF Inv, Standing, Core
<1> QED BY <1>1, StatusIs DEF Removable

LEMMA DiscardGoes == ASSUME StrayDocuments = FALSE, Inv, NEW k \in Keys, Discard(k) PROVE Goes({k})
<1>1. PICK t \in RemoveTab(host, k, NoMark) : Become(t) BY DEF Discard
<1>2. Standing(t, spared) /\ Follows(host, t) /\ Lost(host, t) \subseteq {k}
  <2>1. k \in Docs(host) => k \in OpenKeys(host) BY RemovableIs DEF Discard
  <2> QED BY <1>1, <2>1, NoMarkIs, RemoveFollows DEF Inv
<1>3. host' = t /\ spared' = spared \cap Past(t) BY <1>1 DEF Become
<1>4. Standing(t, spared \cap Past(t)) BY <1>2, Excuse
<1> QED BY <1>2, <1>3, <1>4 DEF Inv, Goes, Discard

LEMMA CancelGoes == ASSUME Inv, CancelDialog PROVE Goes({})
<1>1. host' = host /\ spared' = spared /\ dialog' = None BY DEF CancelDialog
<1>2. host.laidOut \cap Asleep(host) = {}
  <2>1. host.laidOut \subseteq Awake(host) /\ Asleep(host) \cap Awake(host) = {}
    BY StatusIs DEF Inv, Standing, Core
  <2> QED BY <2>1
<1>3. Follows(host, host) /\ Lost(host, host) = {} BY <1>2 DEF Follows, Lost
<1> QED BY <1>1, <1>3 DEF Inv, Goes

Settlings == [key : Keys, by : {"close", "sleep", "drowsy"}, current : BOOLEAN]

\* Only what waits for the saves changes.
LEMMA SettlingFollows ==
    ASSUME NEW s, NEW excused, Standing(s, excused), NEW others, NEW settling \in SUBSET Settlings,
           \A u \in settling : u.current => u.key \in OpenKeys(s),
           \A k \in PastOf(s.recent) \cap OpenKeys(s) : k \in others \/ \E u \in settling : u.key = k /\ u.current
    PROVE  LET t == [s EXCEPT !.settling = settling]
           IN  Standing(t, others) /\ Follows(s, t) /\ Lost(s, t) = {}
<1> DEFINE t == [s EXCEPT !.settling = settling]
<1>1. s \in States BY DEF Standing, Core
<1>2. t \in States BY <1>1 DEF States, Settlings
<1>3. /\ t.held = s.held /\ t.order = s.order /\ t.row = s.row /\ t.asleep = s.asleep /\ t.recent = s.recent
      /\ t.focus = s.focus /\ t.active = s.active /\ t.laidOut = s.laidOut /\ t.loads = s.loads
      /\ t.work = s.work /\ t.at = s.at /\ t.parked = s.parked /\ t.settling = settling
  BY <1>1 DEF States
<1> HIDE DEF t
<1>4. Drowsing(t, others) BY <1>3 DEF Drowsing, OpenKeys
<1>5. /\ s.laidOut \subseteq OpenKeys(s) /\ \A k \in Keys : s.work[k] # "saved" => k \in s.laidOut
      /\ \A k \in s.laidOut : s.at[k] = s.parked[k] /\ s.at[k] # 0
  BY DEF Standing, Core
<1>6. \A l \in t.loads : Pending(t, l) BY <1>3 DEF Standing, Core, Pending
<1>7. Standing(t, others) /\ Follows(s, t)
  <2> HIDE DEF Settlings
  <2> QED BY <1>2, <1>3, <1>4, <1>5, <1>6, AlikeFollows
<1>8. Lost(s, t) = {} BY <1>3 DEF Lost
<1> QED BY <1>7, <1>8 DEF t

LEMMA TaskGoes ==
    ASSUME Inv, NEW k \in Keys, IsOpen(host, k), NEW by \in {"close", "sleep"}, UNCHANGED dialog,
           Become([host EXCEPT !.settling = host.settling \cup {Task(k, by)}])
    PROVE  Goes({})
<1> DEFINE settling == host.settling \cup {Task(k, by)}
           t == [host EXCEPT !.settling = settling]
<1>1. host \in States /\ k \in OpenKeys(host) BY DEF Inv, Standing, Core, IsOpen, OpenKeys
<1>2. Task(k, by) \in Settlings /\ Task(k, by).key = k BY DEF Task, Settlings
<1>3. host.settling \in SUBSET Settlings BY <1>1 DEF States, Settlings
<1>4. settling \in SUBSET Settlings BY <1>2, <1>3
<1>5. \A u \in settling : u.current => u.key \in OpenKeys(host)
  BY <1>1, <1>2 DEF Inv, Standing, Core
<1>6. \A j \in PastOf(host.recent) \cap OpenKeys(host) :
         j \in spared \/ \E u \in settling : u.key = j /\ u.current
  BY DEF Inv, Standing, Core, Drowsing
<1> HIDE DEF settling
<1>7. Standing(t, spared) /\ Follows(host, t) /\ Lost(host, t) = {}
  BY <1>4, <1>5, <1>6, SettlingFollows DEF Inv
<1> HIDE DEF t
<1>8. Become(t) BY DEF t, settling
<1> QED BY <1>7, <1>8, BecomeGoes

LEMMA SleepGoes == ASSUME Inv, NEW k \in Keys, Sleep(k) PROVE Goes({})
BY TaskGoes DEF Sleep

\* A wait that is over.
LEMMA DoneFollows ==
    ASSUME Inv, NEW t \in host.settling
    PROVE  /\ Standing(Done(t), spared \cup {t.key}) /\ Follows(host, Done(t)) /\ Lost(host, Done(t)) = {}
           /\ ~t.current \/ t.key \notin Past(host) => Standing(Done(t), spared)
           /\ t.key \in Keys /\ (t.current => t.key \in OpenKeys(host))
<1> DEFINE settling == host.settling \ {t}
           others == spared \cup {t.key}
<1>1. host \in States BY DEF Inv, Standing, Core
<1>2. host.settling \in SUBSET Settlings BY <1>1 DEF States, Settlings
<1>3. t.key \in Keys /\ (t.current => t.key \in OpenKeys(host))
  BY <1>2 DEF Settlings, Inv, Standing, Core
<1>4. settling \in SUBSET Settlings /\ \A u \in settling : u.current => u.key \in OpenKeys(host)
  BY <1>2 DEF Inv, Standing, Core
<1>5. \A k \in PastOf(host.recent) \cap OpenKeys(host) :
         k \in spared \/ \E u \in host.settling : u.key = k /\ u.current
  BY DEF Inv, Standing, Core, Drowsing
<1>6. Done(t) = [host EXCEPT !.settling = settling] BY DEF Done
<1>7. \A k \in PastOf(host.recent) \cap OpenKeys(host) :
         k \in others \/ \E u \in settling : u.key = k /\ u.current
  BY <1>5
<1>8. Past(host) = PastOf(host.recent) BY DEF Past, PastOf
<1>9. ASSUME ~t.current \/ t.key \notin Past(host)
      PROVE  \A k \in PastOf(host.recent) \cap OpenKeys(host) :
                k \in spared \/ \E u \in settling : u.key = k /\ u.current
  BY <1>5, <1>8, <1>9
<1> HIDE DEF settling, others
<1>10. Standing(Done(t), others) /\ Follows(host, Done(t)) /\ Lost(host, Done(t)) = {}
  <2> DEFINE u == [host EXCEPT !.settling = settling]
  <2>1. Standing(host, spared) BY DEF Inv
  <2>2. Standing(u, others) /\ Follows(host, u) /\ Lost(host, u) = {} BY <1>4, <1>7, <2>1, SettlingFollows
  <2> HIDE DEF u
  <2>3. Done(t) = u BY <1>6 DEF u
  <2> QED BY <2>2, <2>3
<1>11. ~t.current \/ t.key \notin Past(host) => Standing(Done(t), spared)
  BY <1>4, <1>6, <1>9, SettlingFollows DEF Inv
<1> QED BY <1>3, <1>10, <1>11 DEF others

\* A sleeping tab is closed.
LEMMA ForgetFollows ==
    ASSUME NEW s, NEW excused, Standing(s, excused), NEW k \in Keys
    PROVE  LET t == [s EXCEPT !.asleep = Without(s.asleep, k), !.marks[k] = NoMark]
           IN  Standing(t, excused) /\ Follows(s, t) /\ Lost(s, t) = {}
<1> DEFINE asleep == Without(s.asleep, k)
           marks == [s.marks EXCEPT ![k] = NoMark]
           t == [s EXCEPT !.asleep = asleep, !.marks = marks]
<1>1. s \in States /\ s.asleep \in Rows /\ s.marks \in [Keys -> Marks] BY DEF Standing, Core, States
<1>2. asleep \in Rows /\ ToSet(asleep) = Asleep(s) \ {k} BY <1>1, WithoutRow DEF Asleep
<1>3. marks \in [Keys -> Marks] BY <1>1, NoMarkIs
<1>4. [s EXCEPT !.asleep = Without(s.asleep, k), !.marks[k] = NoMark] = t OBVIOUS
<1> HIDE DEF asleep, marks
<1>5. t \in States BY <1>1, <1>2, <1>3 DEF States
<1>6. /\ t.held = s.held /\ t.order = s.order /\ t.row = s.row /\ t.asleep = asleep /\ t.recent = s.recent
      /\ t.focus = s.focus /\ t.active = s.active /\ t.laidOut = s.laidOut /\ t.loads = s.loads
      /\ t.work = s.work /\ t.at = s.at /\ t.parked = s.parked /\ t.settling = s.settling
  BY <1>1 DEF States
<1> HIDE DEF t
<1>7. /\ OpenKeys(t) = OpenKeys(s) /\ Coming(t) = Coming(s) /\ Awake(t) = Awake(s)
      /\ Asleep(t) = Asleep(s) \ {k} /\ LoadingKeys(t) = LoadingKeys(s) /\ Docs(t) = Docs(s)
      /\ \A l : Pending(s, l) => Pending(t, l)
  BY <1>2, <1>6 DEF OpenKeys, Coming, Awake, Asleep, LoadingKeys, Docs, Pending
<1>8. Drowsing(t, excused) BY <1>6, <1>7 DEF Standing, Core, Drowsing
<1>9. Core(t, {}, excused) BY <1>5, <1>6, <1>7, <1>8 DEF Standing, Core
<1>10. Standing(t, excused) BY <1>6, <1>7, <1>9 DEF Standing, Shown, Focused
<1>11. s.laidOut \cap Asleep(t) = {}
  <2>1. s.laidOut \subseteq Awake(s) /\ Asleep(s) \cap Awake(s) = {} BY StatusIs DEF Standing, Core
  <2> QED BY <1>7, <2>1
<1>12. Follows(s, t) BY <1>6, <1>7, <1>11 DEF Follows, Faithful
<1>13. Lost(s, t) = {} BY <1>6 DEF Lost
<1> QED BY <1>4, <1>10, <1>12, <1>13

LEMMA CloseGoes == ASSUME StrayDocuments = FALSE, Inv, NEW k \in Keys, Close(k) PROVE Goes({})
<1>1. CASE k \in Asleep(host) /\ Become([host EXCEPT !.asleep = Without(host.asleep, k), !.marks[k] = NoMark])
  <2> DEFINE t == [host EXCEPT !.asleep = Without(host.asleep, k), !.marks[k] = NoMark]
  <2>1. Standing(t, spared) /\ Follows(host, t) /\ Lost(host, t) = {} BY ForgetFollows DEF Inv
  <2>2. Become(t) /\ UNCHANGED dialog BY <1>1 DEF Close
  <2> HIDE DEF t
  <2> QED BY <2>1, <2>2, BecomeGoes
<1>2. CASE ~IsOpen(host, k) /\ Removable(k) /\ \E s \in RemoveTab(host, k, NoMark) : Become(s)
  <2>1. PICK t \in RemoveTab(host, k, NoMark) : Become(t) BY <1>2
  <2>2. host.work[k] = "saved"
    <3>1. k \notin OpenKeys(host) BY <1>2, StatusIs DEF Inv, Standing, Core
    <3> QED BY <3>1 DEF Inv, Standing, Core
  <2>3. Standing(t, spared) /\ Follows(host, t) /\ Lost(host, t) = {}
    <3>1. k \in Docs(host) => k \in OpenKeys(host) BY <1>2, RemovableIs
    <3> QED BY <2>1, <2>2, <3>1, NoMarkIs, RemoveFollows DEF Inv
  <2>4. UNCHANGED dialog BY DEF Close
  <2> QED BY <2>1, <2>3, <2>4, BecomeGoes
<1>3. CASE IsOpen(host, k) /\ Become([host EXCEPT !.settling = host.settling \cup {Task(k, "close")}])
  BY <1>3, TaskGoes DEF Close
<1> QED BY <1>1, <1>2, <1>3 DEF Close

\* The mark a PDF sleeps with names a page, the one it is at when it was laid out.
LEMMA BookmarkIs ==
    ASSUME NEW s, NEW excused, Standing(s, excused), NEW k \in Keys
    PROVE  /\ Bookmark(s, k) \in Marks /\ Bookmark(s, k).at \in Pages
           /\ k \in s.laidOut => Bookmark(s, k).at = s.at[k]
<1>1. s \in States /\ Apart(s) BY CoreApart DEF Standing, Core
<1>2. s.at[k] \in Pages \cup {0} /\ s.parked[k] \in Pages \cup {0} /\ 1 \in Pages
  BY <1>1, ReaderAssumption DEF States
<1>3. PlaceOf(s, k) \in Pages BY <1>2 DEF PlaceOf
<1>4. k \in s.laidOut => PlaceOf(s, k) = s.at[k]
  <2>1. k \in s.laidOut => s.at[k] = s.parked[k] /\ s.at[k] # 0 BY DEF Standing, Core
  <2> QED BY <2>1 DEF PlaceOf
<1>5. IndexOf(s, k) \in -1..Cardinality(Keys) - 1 BY <1>1, IndexIs
<1> QED BY <1>3, <1>4, <1>5 DEF Bookmark, Marks

\* The PDF of a wait that is over goes, or falls asleep.
LEMMA DoneGoes ==
    ASSUME Inv, NEW t \in host.settling, t.key \in Docs(host) => t.key \in OpenKeys(host),
           NEW mark \in Marks,
           mark.at = 0 \/ (t.key \in host.laidOut => mark.at = host.at[t.key]),
           NEW r \in RemoveTab(Done(t), t.key, mark), Become(r), UNCHANGED dialog
    PROVE  /\ Goes({t.key})
           /\ host.work[t.key] = "saved" => Goes({})
<1> DEFINE d == Done(t)
           excused == spared \cup {t.key}
<1>1. /\ Standing(d, excused) /\ t.key \in Keys BY DoneFollows
<1>2. host \in States BY DEF Inv, Standing, Core
<1>3. /\ d.laidOut = host.laidOut /\ d.at = host.at /\ d.work = host.work /\ d.held = host.held
      /\ d.focus = host.focus /\ d.active = host.active /\ d.row = host.row
  BY <1>2 DEF Done, States
<1> HIDE DEF d, excused
<1>4. t.key \in Docs(d) => t.key \in OpenKeys(d) BY <1>3 DEF Docs, Awake, OpenKeys
<1>5. r \in RemoveTab(d, t.key, mark) BY DEF d
<1>6. mark.at = 0 \/ (t.key \in d.laidOut => mark.at = d.at[t.key]) BY <1>3
<1>7. /\ Standing(r, excused) /\ Follows(d, r) /\ t.key \notin Awake(r)
      /\ Lost(d, r) \subseteq {t.key} /\ (d.work[t.key] = "saved" => Lost(d, r) = {})
  BY <1>1, <1>5, <1>6, <1>4, RemoveFollows
<1>8. Standing(r, spared)
  <2>1. r \in States /\ ToSet(r.recent) \subseteq Awake(r) /\ r.recent \in Rows
    BY <1>7 DEF Standing, Core, States, Docs
  <2>2. Past(r) = PastOf(r.recent) BY DEF Past, PastOf
  <2>3. PastOf(r.recent) \subseteq ToSet(r.recent) BY <2>1, PastShrinks
  <2>4. t.key \notin Past(r) BY <1>7, <2>1, <2>2, <2>3
  <2>5. \A k \in Past(r) : k \in excused => k \in spared BY <2>4 DEF excused
  <2> QED BY <1>7, <2>5, Excuse
<1>9. Follows(host, r) BY <1>3, <1>7 DEF Follows, Faithful, OpenKeys
<1>10. Lost(host, r) \subseteq {t.key} /\ (host.work[t.key] = "saved" => Lost(host, r) = {})
  BY <1>3, <1>7 DEF Lost
<1>11. Goes({t.key}) BY <1>8, <1>9, <1>10, BecomeGoes
<1>12. ASSUME host.work[t.key] = "saved" PROVE Goes({})
  <2>1. Lost(host, r) \subseteq {} BY <1>10, <1>12
  <2> QED BY <1>8, <1>9, <2>1, BecomeGoes
<1> QED BY <1>11, <1>12

LEMMA SettledGoes ==
    ASSUME StrayDocuments = FALSE, Inv, NEW t \in host.settling, Settled(t)
    PROVE  Goes({t.key}) /\ (SlowCloses = FALSE => Goes({}))
<1>1. /\ Standing(host, spared) /\ t.key \in Keys
      /\ t.current => t.key \in OpenKeys(host) /\ host.work[t.key] = "saved"
      /\ SlowCloses \/ t.by # "close" \/ t.current \/ t.key \notin Awake(host)
      /\ t.by = "close" => Removable(t.key)
      /\ UNCHANGED dialog
  BY DoneFollows DEF Inv, Settled
<1>2. t.by = "close" \/ t.current => (t.key \in Docs(host) => t.key \in OpenKeys(host)) BY <1>1, RemovableIs
<1>3. OpenKeys(host) \subseteq Awake(host) BY <1>1, StatusIs DEF Standing, Core
<1>4. PICK r \in IF t.by = "close" THEN Closed(t) ELSE Slept(t) : Become(r) BY DEF Settled
<1>5. CASE t.by = "close" /\ t.key \in Awake(host)
  <2>1. r \in RemoveTab(Done(t), t.key, NoMark) BY <1>4, <1>5 DEF Closed
  <2>2. Goes({t.key}) /\ (host.work[t.key] = "saved" => Goes({}))
    BY <1>1, <1>4, <1>5, <1>2, <2>1, NoMarkIs, DoneGoes
  <2> QED BY <1>1, <1>5, <2>2
<1>6. CASE t.by # "close" /\ t.current /\ (t.by = "drowsy" => t.key \in Past(host))
  <2> DEFINE mark == Bookmark(host, t.key)
  <2>1. mark \in Marks /\ (t.key \in host.laidOut => mark.at = host.at[t.key]) BY <1>1, BookmarkIs
  <2>2. r \in RemoveTab(Done(t), t.key, mark) BY <1>4, <1>6 DEF Slept
  <2> HIDE DEF mark
  <2>3. Goes({t.key}) /\ (host.work[t.key] = "saved" => Goes({}))
    BY <1>1, <1>4, <1>6, <1>2, <2>1, <2>2, DoneGoes
  <2> QED BY <1>1, <1>6, <2>3
<1>7. CASE \/ t.by = "close" /\ t.key \notin Awake(host)
           \/ t.by # "close" /\ ~(t.current /\ (t.by = "drowsy" => t.key \in Past(host)))
  <2>1. r = Done(t) BY <1>4, <1>7 DEF Closed, Slept
  <2>2. ~t.current \/ t.key \notin Past(host) BY <1>1, <1>3, <1>7
  <2>3. Standing(r, spared) /\ Follows(host, r) /\ Lost(host, r) = {} BY <2>1, <2>2, DoneFollows
  <2>4. Goes({t.key}) BY <1>1, <1>4, <2>3, BecomeGoes
  <2>5. Goes({}) BY <1>1, <1>4, <2>3, BecomeGoes
  <2> QED BY <2>4, <2>5
<1> QED BY <1>5, <1>6, <1>7

LEMMA NotSettledGoes == ASSUME Inv, NEW t \in host.settling, NotSettled(t) PROVE Goes({})
<1> DEFINE d == Done(t)
           excused == IF t.current THEN spared \cup {t.key} ELSE spared
           shown == t.by # "drowsy" /\ t.key \in Awake(host) \cup Asleep(host)
           r == IF shown THEN Show(d, t.key) ELSE d
<1>1. /\ host' = r /\ dialog' \in {t.key, dialog} /\ spared' = excused \cap Past(r)
  BY DEF NotSettled
<1>2. /\ Standing(d, spared \cup {t.key}) /\ Follows(host, d) /\ Lost(host, d) = {}
      /\ ~t.current => Standing(d, spared)
      /\ t.key \in Keys
  BY DoneFollows
<1>3. host \in States BY DEF Inv, Standing, Core
<1>4. /\ d.laidOut = host.laidOut /\ d.at = host.at /\ d.work = host.work /\ d.held = host.held
      /\ d.focus = host.focus /\ d.active = host.active /\ d.asleep = host.asleep
  BY <1>3 DEF Done, States
<1>5. Standing(d, excused) BY <1>2
<1>6. Awake(d) = Awake(host) /\ Asleep(d) = Asleep(host) BY <1>4 DEF Awake, Asleep
<1> HIDE DEF d, excused
<1>7. Standing(r, excused) /\ Follows(host, r) /\ Lost(host, r) = {}
  <2>1. CASE shown
    <3>1. r = Show(d, t.key) BY <2>1
    <3>2. Standing(r, excused) /\ Follows(d, r) /\ Lost(d, r) = {} BY <1>5, <1>6, <2>1, <3>1, ShowFollows
    <3> HIDE DEF r
    <3>3. Follows(host, r) BY <1>4, <3>2 DEF Follows, Faithful, OpenKeys
    <3>4. Lost(host, r) = {} BY <1>4, <3>2 DEF Lost
    <3> QED BY <3>2, <3>3, <3>4
  <2>2. CASE ~shown BY <1>2, <1>5, <2>2
  <2> QED BY <2>1, <2>2
<1> HIDE DEF r
<1>8. Standing(r, excused \cap Past(r)) BY <1>7, Excuse
<1>9. excused \subseteq Keys BY <1>2 DEF Inv, excused
<1> QED BY <1>1, <1>2, <1>7, <1>8, <1>9 DEF Inv, Goes

LEMMA ReloadGoes == ASSUME Inv, NEW k \in Keys, Reload(k) PROVE Goes({k})
<1> DEFINE s == [host EXCEPT !.focus = None]
           mark == Bookmark(host, k)
<1>1. Standing(host, spared) BY DEF Inv
<1>2. PICK r \in RemoveTab(s, k, mark) : Become(Open(r, k)) BY DEF Reload
<1>3. mark \in Marks BY <1>1, BookmarkIs
<1>4. /\ Core(s, {}, spared) /\ Framed(host, s) /\ s.focus = None /\ s.active = host.active
  BY <1>1, FocusKeeps DEF Standing
<1> HIDE DEF s, mark
<1>5. /\ OpenKeys(s) = OpenKeys(host) /\ Awake(s) = Awake(host) /\ Asleep(s) = Asleep(host)
      /\ Docs(s) = Docs(host)
  BY <1>4, FramedSame
<1>6. Shown(s) BY <1>1, <1>4, <1>5 DEF Standing, Shown
<1>7. s.focus \in Awake(s) \cup {None} BY <1>4
<1>8. /\ Core(r, {}, spared) /\ Shown(r) /\ k \notin Awake(r)
      /\ Awake(r) \subseteq Awake(s) \cup {r.focus}
      /\ \A j \in Keys \ {k} : r.work[j] = s.work[j] /\ (j \in Asleep(r) => j \in Asleep(s))
  <2>1. k \in OpenKeys(s) BY <1>5 DEF Reload, IsOpen, OpenKeys
  <2> QED BY <1>2, <1>3, <1>4, <1>6, <1>7, <2>1, RemoveTabKeeps
<1> DEFINE t == Open(r, k)
<1>9. /\ Core(t, {}, spared) /\ Shown(t) /\ Faithful(t) /\ t.focus = k
      /\ Awake(t) = Awake(r) \cup {k} /\ Asleep(t) = Asleep(r) \ {k} /\ t.work = r.work
  BY <1>8, OpenKeeps
<1>10. Become(t) /\ UNCHANGED dialog BY <1>2 DEF Reload
<1> HIDE DEF t
<1>11. None \notin Keys BY ReaderAssumption
<1>12. Standing(t, spared) BY <1>9, <1>11 DEF Standing, Focused
<1>13. host.laidOut \cap Asleep(t) = {}
  <2>1. host.laidOut \subseteq Awake(host) /\ Asleep(host) \cap Awake(host) = {} /\ Awake(host) \subseteq Keys
    BY <1>1, StatusIs DEF Standing, Core
  <2> QED BY <1>5, <1>8, <1>9, <2>1
<1>14. Follows(host, t) BY <1>9, <1>13 DEF Follows
<1>15. Lost(host, t) \subseteq {k} BY <1>4, <1>8, <1>9 DEF Lost, Framed
<1> QED BY <1>10, <1>12, <1>14, <1>15, BecomeGoes

\* Only what is under way of the loads changes.
LEMMA LoadsFollow ==
    ASSUME NEW s, NEW excused, Standing(s, excused), NEW loads \in SUBSET Loadings,
           \A m \in loads : Pending(s, m)
    PROVE  LET t == [s EXCEPT !.loads = loads]
           IN  Standing(t, excused) /\ Follows(s, t) /\ Lost(s, t) = {}
<1> DEFINE t == [s EXCEPT !.loads = loads]
<1>1. s \in States BY DEF Standing, Core
<1>2. t \in States BY <1>1 DEF States
<1>3. /\ t.held = s.held /\ t.order = s.order /\ t.row = s.row /\ t.asleep = s.asleep /\ t.recent = s.recent
      /\ t.focus = s.focus /\ t.active = s.active /\ t.laidOut = s.laidOut /\ t.loads = loads
      /\ t.work = s.work /\ t.at = s.at /\ t.parked = s.parked /\ t.settling = s.settling
  BY <1>1 DEF States
<1> HIDE DEF t
<1>4. \A m \in t.loads : Pending(t, m) BY <1>3 DEF Pending
<1>5. /\ s.laidOut \subseteq OpenKeys(s) /\ \A k \in Keys : s.work[k] # "saved" => k \in s.laidOut
      /\ \A k \in s.laidOut : s.at[k] = s.parked[k] /\ s.at[k] # 0
      /\ \A u \in s.settling : u.current => u.key \in OpenKeys(s)
      /\ Drowsing(t, excused)
  BY <1>3 DEF Standing, Core, Drowsing, OpenKeys
<1>6. Standing(t, excused) /\ Follows(s, t) BY <1>2, <1>3, <1>4, <1>5, AlikeFollows
<1>7. Lost(s, t) = {} BY <1>3 DEF Lost
<1> QED BY <1>6, <1>7 DEF t

\* A load is over, or EmbedPDF's task that opens its document.
LEMMA OverGoes == ASSUME Inv, NEW l \in host.loads, Become(Over(host, l)), UNCHANGED dialog PROVE Goes({})
<1> DEFINE loads == host.loads \ {l}
           t == [host EXCEPT !.loads = loads]
<1>1. Standing(host, spared) BY DEF Inv
<1>2. loads \in SUBSET Loadings /\ \A m \in loads : Pending(host, m) BY <1>1 DEF Standing, Core, States
<1> HIDE DEF loads
<1>3. Standing(t, spared) /\ Follows(host, t) /\ Lost(host, t) = {} BY <1>1, <1>2, LoadsFollow
<1>4. Become(t) BY DEF Over, loads
<1> HIDE DEF t
<1> QED BY <1>3, <1>4, BecomeGoes

\* The bytes of l are loaded: its PDF opens, last among EmbedPDF's.
Taken(s, l) ==
    LET k == l.key
        opening == [l EXCEPT !.taken = TRUE, !.index = s.held[k].index]
    IN  [s EXCEPT !.loads = Renewed(s, l, opening), !.row = Without(s.row, k),
                  !.held[k].status = "open", !.held[k].index = -1,
                  !.order = Append(Without(s.order, k), k)]

LEMMA TakenKeeps ==
    ASSUME NEW s, NEW excused, Standing(s, excused), NEW l \in s.loads, l.current, ~l.taken
    PROVE  LET t == Taken(s, l)
           IN  /\ Standing(t, excused) /\ OpenKeys(t) = OpenKeys(s) \cup {l.key}
               /\ l.key \in Keys /\ l.key \notin OpenKeys(s) /\ l.key \in Docs(t)
               /\ Awake(t) = Awake(s) /\ Asleep(t) = Asleep(s) /\ t.focus = s.focus
               /\ t.active = s.active /\ t.work = s.work
<1> DEFINE k == l.key
           opening == [l EXCEPT !.taken = TRUE, !.index = s.held[k].index]
           loads == (s.loads \ {l}) \cup {opening}
           held == [s.held EXCEPT ![k] = [@ EXCEPT !.status = "open", !.index = -1]]
           row == Without(s.row, k)
           order == Append(Without(s.order, k), k)
           t == [s EXCEPT !.loads = loads, !.held = held, !.row = row, !.order = order]
<1>1. /\ s \in States /\ k \in Keys /\ s.held \in [Keys -> Held] /\ s.row \in Rows /\ s.order \in Rows
      /\ s.recent \in Rows /\ s.loads \in SUBSET Loadings /\ l \in Loadings
  BY DEF Standing, Core, States, Loadings
<1>2. s.held[k].status = "loading" BY DEF Standing, Core, Pending
<1>3. /\ held \in [Keys -> Held] /\ held[k].status = "open"
      /\ \A j \in Keys \ {k} : held[j] = s.held[j]
  <2>1. s.held[k] \in Held BY <1>1
  <2>2. Cardinality(Keys) \in Nat BY EmptyRow, RowLength
  <2>3. ASSUME NEW h \in Held
        PROVE  /\ [h EXCEPT !.status = "open", !.index = -1] \in Held
               /\ [h EXCEPT !.status = "open", !.index = -1].status = "open"
    <3>1. -1 \in Indices BY <2>2 DEF Indices
    <3>2. [h EXCEPT !.status = "open"] \in Held BY DEF Held
    <3>3. \A g \in Held : [g EXCEPT !.index = -1] \in Held BY <3>1 DEF Held
    <3>4. [h EXCEPT !.status = "open", !.index = -1] = [[h EXCEPT !.status = "open"] EXCEPT !.index = -1]
      BY DEF Held
    <3>5. [h EXCEPT !.status = "open", !.index = -1].status = "open" BY DEF Held
    <3> QED BY <3>2, <3>3, <3>4, <3>5
  <2> HIDE DEF k
  <2> QED BY <1>1, <2>1, <2>3
<1>4. /\ k \notin OpenKeys(s) /\ k \in Coming(s) /\ k \in LoadingKeys(s) /\ k \in Awake(s)
      /\ k \in ToSet(s.row) /\ k \notin Docs(s) /\ k \notin s.laidOut
  <2>1. k \notin OpenKeys(s) /\ k \in Coming(s) /\ k \in LoadingKeys(s) /\ k \in Awake(s)
    BY <1>1, <1>2 DEF OpenKeys, Coming, LoadingKeys, Awake
  <2>2. k \in ToSet(s.row) /\ k \notin s.laidOut BY <2>1 DEF Standing, Core
  <2> QED BY <2>1, <2>2 DEF Docs
<1>5. row \in Rows /\ ToSet(row) = ToSet(s.row) \ {k} BY <1>1, WithoutRow
<1>6. order \in Rows /\ ToSet(order) = Docs(s) \cup {k}
  <2>1. ToSet(s.order) = Docs(s) BY DEF Standing, Core
  <2>2. Without(s.order, k) \in Rows /\ ToSet(Without(s.order, k)) = Docs(s) \ {k} BY <1>1, <2>1, WithoutRow
  <2>3. order \in Rows /\ ToSet(order) = (Docs(s) \ {k}) \cup {k} BY <1>1, <2>2, AppendRow
  <2> QED BY <2>3
<1>7. Taken(s, l) = t
  <2>1. held = [s.held EXCEPT ![k].status = "open", ![k].index = -1]
    <3>1. DOMAIN s.held = Keys /\ DOMAIN s.held[k] = {"status", "at", "index"} BY <1>1 DEF Held
    <3> QED BY <1>1, <3>1
  <2> QED BY <1>1, <2>1 DEF Taken, Renewed, States
<1>8. opening \in Loadings /\ opening.key = k /\ opening.taken
  <2>1. s.held[k].index \in Indices BY <1>1 DEF Held
  <2>2. ASSUME NEW m \in Loadings, NEW i \in Indices
        PROVE  LET n == [m EXCEPT !.taken = TRUE, !.index = i]
               IN  n \in Loadings /\ n.key = m.key /\ n.taken
    <3>1. \A h \in Loadings : LET n == [h EXCEPT !.taken = TRUE]
                             IN  n \in Loadings /\ n.key = h.key /\ n.taken = TRUE
      BY DEF Loadings
    <3>2. \A h \in Loadings : LET n == [h EXCEPT !.index = i]
                             IN  n \in Loadings /\ n.key = h.key /\ n.taken = h.taken
      BY DEF Loadings
    <3>3. [m EXCEPT !.taken = TRUE, !.index = i] = [[m EXCEPT !.taken = TRUE] EXCEPT !.index = i]
      BY DEF Loadings
    <3>4. /\ [m EXCEPT !.taken = TRUE] \in Loadings /\ [m EXCEPT !.taken = TRUE].key = m.key
          /\ [m EXCEPT !.taken = TRUE].taken = TRUE
      BY <3>1
    <3> HIDE DEF Indices, Loadings
    <3> QED BY <3>2, <3>3, <3>4
  <2> HIDE DEF Indices, Loadings
  <2> QED BY <1>1, <2>1, <2>2
<1>9. ASSUME NEW m \in s.loads, m # l PROVE m.current => m.key # k
  <2> SUFFICES ASSUME m.current, m.key = k PROVE FALSE OBVIOUS
  <2>1. m \in Loadings /\ Pending(s, m) /\ Pending(s, l) BY <1>1, <1>9 DEF Standing, Core
  <2>2. m.taken = FALSE /\ m.current = TRUE /\ l.taken = FALSE /\ l.current = TRUE
    BY <1>1, <1>2, <2>1 DEF Loadings, Pending
  <2>3. m.index = -1 /\ l.index = -1 BY <2>1, <2>2 DEF Pending
  <2>4. /\ m = [key |-> m.key, taken |-> m.taken, index |-> m.index, current |-> m.current]
        /\ l = [key |-> l.key, taken |-> l.taken, index |-> l.index, current |-> l.current]
    BY <1>1, <2>1 DEF Loadings
  <2> QED BY <1>9, <2>2, <2>3, <2>4
<1> HIDE DEF k, opening, held, row, order
<1>10. loads \in SUBSET Loadings BY <1>1, <1>8
<1>11. \A m \in loads : m = opening \/ (m \in s.loads /\ m # l) OBVIOUS
<1> HIDE DEF loads
<1>12. t \in States BY <1>1, <1>3, <1>5, <1>6, <1>10 DEF States
<1>13. /\ t.held = held /\ t.order = order /\ t.row = row /\ t.asleep = s.asleep /\ t.recent = s.recent
       /\ t.focus = s.focus /\ t.active = s.active /\ t.laidOut = s.laidOut /\ t.loads = loads
       /\ t.work = s.work /\ t.at = s.at /\ t.parked = s.parked /\ t.settling = s.settling
       /\ t.marks = s.marks
  BY <1>1 DEF States
<1> HIDE DEF t
<1>14. /\ OpenKeys(t) = OpenKeys(s) \cup {k} /\ Coming(t) = Coming(s) \ {k}
       /\ LoadingKeys(t) = LoadingKeys(s) \ {k}
  BY <1>1, <1>3, <1>13 DEF OpenKeys, Coming, LoadingKeys
<1>15. Awake(t) = Awake(s) /\ Asleep(t) = Asleep(s) /\ Docs(t) = Docs(s) \cup {k}
  <2>1. Awake(s) = OpenKeys(s) \cup Coming(s) /\ Awake(t) = OpenKeys(t) \cup Coming(t)
    BY <1>1, <1>12, StatusIs
  <2>2. Awake(t) = Awake(s) BY <1>4, <1>14, <2>1
  <2> QED BY <1>4, <1>5, <1>13, <2>2 DEF Asleep, Docs
<1>16. \A m \in t.loads : Pending(t, m)
  <2> SUFFICES ASSUME NEW m \in loads PROVE Pending(t, m) BY <1>13
  <2>1. CASE m = opening BY <1>3, <1>4, <1>8, <1>13, <2>1 DEF Pending
  <2>2. CASE m \in s.loads /\ m # l
    <3>1. Pending(s, m) /\ m.key \in Keys /\ (m.current => m.key # k)
      BY <1>1, <1>9, <2>2 DEF Standing, Core, Loadings
    <3> QED BY <1>3, <1>13, <3>1 DEF Pending
  <2> QED BY <1>11, <2>1, <2>2
<1>17. Drowsing(t, excused)
  <2>1. ToSet(s.recent) \subseteq Docs(s) BY DEF Standing, Core
  <2>2. PastOf(s.recent) \subseteq ToSet(s.recent) BY <1>1, PastShrinks
  <2>3. PastOf(t.recent) \cap OpenKeys(t) = PastOf(s.recent) \cap OpenKeys(s)
    BY <1>4, <1>13, <1>14, <2>1, <2>2
  <2> QED BY <1>13, <2>3 DEF Standing, Core, Drowsing
<1>18. \A u \in t.settling : u.current => u.key \in OpenKeys(t) BY <1>13, <1>14 DEF Standing, Core
<1>19. /\ ToSet(t.order) = Docs(t) \cup {} /\ ToSet(t.row) \subseteq Coming(t)
       /\ LoadingKeys(t) \subseteq ToSet(t.row)
  BY <1>5, <1>6, <1>13, <1>14, <1>15 DEF Standing, Core
<1>20. /\ ToSet(t.recent) \subseteq Docs(t) /\ t.laidOut \subseteq OpenKeys(t)
       /\ Asleep(t) \cap Awake(t) = {}
       /\ \A j \in Keys : t.work[j] # "saved" => j \in t.laidOut
       /\ \A j \in t.laidOut : t.at[j] = t.parked[j] /\ t.at[j] # 0
  BY <1>13, <1>14, <1>15 DEF Standing, Core
<1>21. Core(t, {}, excused) BY <1>12, <1>16, <1>17, <1>18, <1>19, <1>20 DEF Core
<1>22. Standing(t, excused) BY <1>13, <1>15, <1>21 DEF Standing, Shown, Focused
<1>23. k \in Docs(t) BY <1>15
<1> QED BY <1>1, <1>4, <1>7, <1>13, <1>14, <1>15, <1>22, <1>23 DEF k

LEMMA LoadedGoes == ASSUME Inv, NEW l \in host.loads, Loaded(l) PROVE Goes({})
<1> DEFINE k == l.key
           gone == Over(host, l)
           taken == Taken(host, l)
           shown == IF host.focus = k THEN SetActive(taken, k) ELSE taken
<1>1. UNCHANGED dialog /\ ~l.taken BY DEF Loaded
<1>2. Become(IF ~l.current THEN gone ELSE shown) BY DEF Loaded, Taken
<1>3. Standing(host, spared) BY DEF Inv
<1> HIDE DEF k, gone, taken, shown
<1>4. CASE ~l.current
  <2>1. Become(Over(host, l)) BY <1>2, <1>4 DEF gone
  <2> QED BY <1>1, <2>1, OverGoes
<1>5. CASE l.current
  <2>1. /\ Standing(taken, spared) /\ OpenKeys(taken) = OpenKeys(host) \cup {k}
        /\ k \in Keys /\ k \notin OpenKeys(host) /\ k \in Docs(taken)
        /\ Awake(taken) = Awake(host) /\ Asleep(taken) = Asleep(host) /\ taken.focus = host.focus
        /\ taken.active = host.active /\ taken.work = host.work
    BY <1>1, <1>3, <1>5, TakenKeeps DEF taken, k
  <2>2. host.focus # k => (Faithful(host) => Faithful(taken)) BY <2>1 DEF Faithful
  <2>3. /\ Core(shown, {}, spared) /\ Framed(taken, shown) /\ Shown(shown) /\ shown.focus = host.focus
        /\ Faithful(host) => Faithful(shown)
    <3>1. CASE host.focus = k
      <4>1. shown = SetActive(taken, k) /\ Core(taken, {}, spared) BY <2>1, <3>1 DEF shown, Standing
      <4>2. /\ Core(shown, {}, spared) /\ Framed(taken, shown) /\ shown.active = k
            /\ shown.focus \in {taken.focus, k}
        BY <2>1, <4>1, SetActiveKeeps
      <4>3. Docs(shown) = Docs(taken) BY <4>2, FramedSame
      <4> QED BY <2>1, <3>1, <4>2, <4>3 DEF Shown, Faithful
    <3>2. CASE host.focus # k
      <4>1. shown = taken BY <3>2 DEF shown
      <4> QED BY <2>1, <2>2, <3>2, <4>1 DEF Standing, Framed
    <3> QED BY <3>1, <3>2
  <2>4. Awake(shown) = Awake(host) /\ Asleep(shown) = Asleep(host) BY <2>1, <2>3, FramedSame
  <2>5. Standing(shown, spared) BY <1>3, <2>3, <2>4 DEF Standing, Focused
  <2>6. host.laidOut \cap Asleep(host) = {}
    <3>1. host.laidOut \subseteq Awake(host) /\ Asleep(host) \cap Awake(host) = {}
      BY <1>3, StatusIs DEF Standing, Core
    <3> QED BY <3>1
  <2>7. Become(shown) BY <1>2, <1>5
  <2>8. Follows(host, shown) BY <2>3, <2>4, <2>6 DEF Follows
  <2>9. Lost(host, shown) = {} BY <2>1, <2>3 DEF Lost, Framed
  <2> QED BY <1>1, <2>5, <2>7, <2>8, <2>9, BecomeGoes
<1> QED BY <1>4, <1>5

\* Only the order of EmbedPDF's documents changes.
LEMMA OrderKeeps ==
    ASSUME NEW s, NEW excused, Standing(s, excused), NEW order \in Rows, ToSet(order) = Docs(s)
    PROVE  LET t == [s EXCEPT !.order = order]
           IN  Standing(t, excused) /\ Framed(s, t) /\ t.focus = s.focus /\ t.active = s.active
<1> DEFINE t == [s EXCEPT !.order = order]
<1>1. s \in States BY DEF Standing, Core
<1>2. t \in States BY <1>1 DEF States
<1>3. /\ Framed(s, t) /\ t.order = order /\ t.recent = s.recent /\ t.focus = s.focus
      /\ t.active = s.active /\ t.at = s.at /\ t.settling = s.settling
  BY <1>1 DEF States, Framed
<1> HIDE DEF t
<1>4. /\ OpenKeys(t) = OpenKeys(s) /\ Coming(t) = Coming(s) /\ Awake(t) = Awake(s) /\ Asleep(t) = Asleep(s)
      /\ LoadingKeys(t) = LoadingKeys(s) /\ Docs(t) = Docs(s)
      /\ \A l : Pending(s, l) => Pending(t, l)
  BY <1>3, FramedSame
<1>5. Drowsing(t, excused) BY <1>3, <1>4 DEF Standing, Core, Drowsing
<1>6. Core(t, {}, excused) BY <1>2, <1>3, <1>4, <1>5 DEF Standing, Core, Framed
<1>7. Standing(t, excused) BY <1>3, <1>4, <1>6 DEF Standing, Shown, Focused
<1> QED BY <1>3, <1>7 DEF t

\* The document of a load moves to its place among EmbedPDF's.
LEMMA PlacedGoes == ASSUME Inv, NEW l \in host.loads, Placed(l) PROVE Goes({})
<1> DEFINE k == l.key
           m == [l EXCEPT !.index = -1]
           loads == (host.loads \ {l}) \cup {m}
           going == [host EXCEPT !.loads = loads]
           before == {j \in ToSet(host.order) : IndexOf(host, j) < l.index}
           others == Without(host.order, k)
           place == Cardinality(before \ {k}) + 1
           order == InsertAt(others, place, k)
           placed == [going EXCEPT !.order = order]
<1>1. UNCHANGED dialog /\ l.taken BY DEF Placed
<1>2. Become(IF k \notin ToSet(host.order) THEN going ELSE placed) BY DEF Placed, Renewed
<1>3. Standing(host, spared) BY DEF Inv
<1>4. /\ host \in States /\ host.loads \in SUBSET Loadings /\ l \in Loadings /\ k \in Keys /\ Pending(host, l)
  BY <1>3 DEF Standing, Core, States, Loadings
<1>5. m \in Loadings /\ m.key = l.key /\ m.taken = l.taken /\ m.index = -1 /\ m.current = l.current
  <2>1. Cardinality(Keys) \in Nat BY EmptyRow, RowLength
  <2>2. -1 \in Indices BY <2>1 DEF Indices
  <2> QED BY <1>4, <2>2 DEF Loadings
<1>6. Pending(host, m) BY <1>4, <1>5 DEF Pending
<1> HIDE DEF m
<1>7. loads \in SUBSET Loadings /\ \A n \in loads : Pending(host, n)
  BY <1>3, <1>4, <1>5, <1>6 DEF Standing, Core
<1> HIDE DEF loads
<1>8. Standing(going, spared) /\ Follows(host, going) /\ Lost(host, going) = {}
  BY <1>3, <1>7, LoadsFollow
<1>9. /\ going.held = host.held /\ going.row = host.row /\ going.order = host.order /\ going.focus = host.focus
      /\ going.active = host.active /\ going.asleep = host.asleep /\ going.marks = host.marks
      /\ going.work = host.work
  BY <1>4 DEF States
<1> HIDE DEF k, going, before, others, place, order, placed
<1>10. CASE k \notin ToSet(host.order)
  <2>1. Become(going) BY <1>2, <1>10
  <2> QED BY <1>1, <1>8, <2>1, BecomeGoes
<1>11. CASE k \in ToSet(host.order)
  <2>1. Become(placed) BY <1>2, <1>11
  <2>2. host.order \in Rows /\ ToSet(host.order) = Docs(host) BY <1>3, <1>4 DEF Standing, Core, States
  <2>3. others \in Rows /\ ToSet(others) = Docs(host) \ {k} BY <2>2, WithoutRow DEF others
  <2>4. place \in 1..Len(others) + 1
    <3>1. before \ {k} \subseteq ToSet(others) BY <2>2, <2>3 DEF before
    <3>2. /\ IsFiniteSet(ToSet(others)) /\ Cardinality(ToSet(others)) = Len(others)
      BY <2>3, RowLength
    <3>3. /\ IsFiniteSet(before \ {k}) /\ Cardinality(before \ {k}) <= Len(others)
      BY <3>1, <3>2, FS_Subset
    <3>4. Cardinality(before \ {k}) \in Nat /\ Len(others) \in Nat
      BY <2>3, <3>3, FS_CardinalityType, RowFacts
    <3> QED BY <3>3, <3>4 DEF place
  <2>5. order \in Rows /\ ToSet(order) = Docs(host)
    <3>1. k \notin ToSet(others) BY <2>3
    <3>2. order \in Rows /\ ToSet(order) = ToSet(others) \cup {k}
      BY <1>4, <2>3, <2>4, <3>1, InsertRow DEF order, k
    <3> QED BY <1>11, <2>2, <2>3, <3>2
  <2>6. Docs(going) = Docs(host) /\ Asleep(going) = Asleep(host) BY <1>9 DEF Docs, Awake, Asleep
  <2>7. /\ Standing(placed, spared) /\ Framed(going, placed) /\ placed.focus = going.focus
        /\ placed.active = going.active
    BY <1>8, <2>5, <2>6, OrderKeeps DEF placed
  <2>8. OpenKeys(placed) = OpenKeys(going) /\ Asleep(placed) = Asleep(going) /\ Awake(placed) = Awake(going)
    BY <2>7, FramedSame
  <2>9. Follows(host, placed) BY <1>8, <2>7, <2>8 DEF Follows, Faithful, Framed
  <2>10. Lost(host, placed) = {} BY <1>9, <2>7 DEF Lost, Framed
  <2> QED BY <1>1, <2>1, <2>7, <2>9, <2>10, BecomeGoes
<1> QED BY <1>10, <1>11

LEMMA OpenedGoes == ASSUME Inv, NEW l \in host.loads, Opened(l) PROVE Goes({})
BY OverGoes DEF Opened

\* A load failed: the tab says so, nothing waits for it, and EmbedPDF keeps what it took in.
LEMMA LoadFailedGoes ==
    ASSUME LateFailures = FALSE, Inv, NEW l \in host.loads, LoadFailed(l)
    PROVE  Goes({})
<1> DEFINE k == l.key
           gone == Over(host, l)
           loads == Outdate(gone.loads, k)
           settling == Outdate(host.settling, k)
           failed == [NotHeld EXCEPT !.status = "failed"]
           held == [gone.held EXCEPT ![k] = failed]
           work == [gone.work EXCEPT ![k] = "saved"]
           t == [gone EXCEPT !.held = held, !.loads = loads, !.settling = settling, !.work = work]
<1>1. Standing(host, spared) /\ UNCHANGED dialog BY DEF Inv, LoadFailed
<1>2. /\ host \in States /\ k \in Keys /\ host.held \in [Keys -> Held]
      /\ host.work \in [Keys -> {"saved", "unsaved", "refused"}]
      /\ host.held[k].status \in {"loading", "open"} /\ k \notin host.laidOut
  BY <1>1 DEF Standing, Core, States, LoadFailed, Pending, Loadings
<1>3. Become(t) BY <1>2 DEF LoadFailed
<1>4. /\ gone \in States /\ gone.loads = host.loads \ {l} /\ gone.settling = host.settling
      /\ gone.held = host.held /\ gone.work = host.work
  BY <1>2 DEF States, Over
<1>5. /\ loads \in SUBSET Loadings /\ settling \in SUBSET Settlings
      /\ \A m \in loads : m.current => m \in host.loads /\ m.key # k
      /\ \A m \in loads : m.taken \/ m.index = -1
      /\ \A u \in settling : u.current => u \in host.settling /\ u.key # k
      /\ \A u \in host.settling : u.key # k => u \in settling
  <2>1. \A m \in gone.loads : m.taken \/ m.index = -1 BY <1>1, <1>4 DEF Standing, Core, Pending
  <2>2. gone.loads \subseteq host.loads BY <1>4
  <2> HIDE DEF gone, k, loads, settling
  <2>3. /\ loads \in SUBSET Loadings
        /\ \A m \in loads : m.current => m \in gone.loads /\ m.key # k
        /\ \A m \in loads : m.taken \/ m.index = -1
    BY <1>4, <2>1, OutdateKeeps DEF loads
  <2>4. /\ settling \in SUBSET Settlings
        /\ \A u \in settling : u.current => u \in host.settling /\ u.key # k
        /\ \A u \in host.settling : u.key # k => u \in settling
    BY <1>2, OutdateKeeps DEF settling, Settlings
  <2> QED BY <2>2, <2>3, <2>4
<1>6. /\ held \in [Keys -> Held] /\ held[k].status = "failed" /\ \A j \in Keys \ {k} : held[j] = host.held[j]
  <2>1. Cardinality(Keys) \in Nat BY EmptyRow, RowLength
  <2>2. failed = [status |-> "failed", at |-> 0, index |-> -1] BY DEF NotHeld
  <2>3. failed \in Held /\ failed.status = "failed" BY <2>1, <2>2 DEF Held, Indices
  <2> HIDE DEF failed, k, gone
  <2> QED BY <1>2, <1>4, <2>3
<1>7. work = host.work
  <2>1. host.work[k] = "saved" BY <1>1, <1>2 DEF Standing, Core
  <2> HIDE DEF gone
  <2> QED BY <1>2, <1>4, <2>1
<1>8. t = [host EXCEPT !.held = held, !.loads = loads, !.settling = settling]
  <2> HIDE DEF held, loads, settling, k
  <2> QED BY <1>2, <1>7 DEF States, Over
<1> HIDE DEF t, held, loads, settling, work, k, gone
<1>9. t \in States BY <1>2, <1>5, <1>6, <1>8 DEF States, Settlings
<1>10. /\ t.held = held /\ t.order = host.order /\ t.row = host.row /\ t.asleep = host.asleep
       /\ t.recent = host.recent /\ t.focus = host.focus /\ t.active = host.active
       /\ t.laidOut = host.laidOut /\ t.loads = loads /\ t.work = host.work /\ t.at = host.at
       /\ t.parked = host.parked /\ t.settling = settling
  BY <1>2, <1>8 DEF States
<1>11. /\ OpenKeys(t) = OpenKeys(host) \ {k} /\ Coming(t) = Coming(host) \cup {k}
       /\ LoadingKeys(t) = LoadingKeys(host) \ {k}
  BY <1>2, <1>6, <1>10 DEF OpenKeys, Coming, LoadingKeys
<1>12. Awake(t) = Awake(host) /\ Asleep(t) = Asleep(host) /\ Docs(t) = Docs(host)
  <2>1. Awake(t) = Awake(host) BY <1>2, <1>6, <1>10 DEF Awake
  <2> QED BY <1>10, <2>1 DEF Asleep, Docs
<1>13. \A m \in t.loads : Pending(t, m)
  <2> SUFFICES ASSUME NEW m \in loads PROVE Pending(t, m) BY <1>10
  <2>1. m.current => m \in host.loads /\ m.key # k /\ m.key \in Keys BY <1>5 DEF Loadings
  <2>2. m.current => Pending(host, m) BY <1>1, <2>1 DEF Standing, Core
  <2> QED BY <1>5, <1>6, <1>10, <2>1, <2>2 DEF Pending
<1>14. Drowsing(t, spared)
  <2> SUFFICES ASSUME NEW j \in PastOf(host.recent) \cap OpenKeys(t), j \notin spared
               PROVE  \E u \in settling : u.key = j /\ u.current
    BY <1>10 DEF Drowsing
  <2>1. j \in OpenKeys(host) /\ j # k BY <1>11
  <2>2. PICK u \in host.settling : u.key = j /\ u.current BY <1>1, <2>1 DEF Standing, Core, Drowsing
  <2> QED BY <1>5, <2>1, <2>2
<1>15. /\ t.laidOut \subseteq OpenKeys(t)
       /\ \A u \in t.settling : u.current => u.key \in OpenKeys(t)
       /\ \A j \in Keys : t.work[j] # "saved" => j \in t.laidOut
       /\ \A j \in t.laidOut : t.at[j] = t.parked[j] /\ t.at[j] # 0
  BY <1>1, <1>2, <1>5, <1>10, <1>11 DEF Standing, Core
<1>16. /\ ToSet(t.order) = Docs(t) \cup {} /\ ToSet(t.row) \subseteq Coming(t)
       /\ LoadingKeys(t) \subseteq ToSet(t.row) /\ Asleep(t) \cap Awake(t) = {}
       /\ ToSet(t.recent) \subseteq Docs(t)
  BY <1>1, <1>10, <1>11, <1>12 DEF Standing, Core
<1>17. Core(t, {}, spared) BY <1>9, <1>13, <1>14, <1>15, <1>16 DEF Core
<1>18. Standing(t, spared) BY <1>1, <1>10, <1>12, <1>17 DEF Standing, Shown, Focused
<1>19. host.laidOut \cap Asleep(host) = {}
  <2>1. host.laidOut \subseteq Awake(host) /\ Asleep(host) \cap Awake(host) = {}
    BY <1>1, StatusIs DEF Standing, Core
  <2> QED BY <2>1
<1>20. Follows(host, t) BY <1>10, <1>11, <1>12, <1>19 DEF Follows, Faithful
<1>21. Lost(host, t) = {} BY <1>10 DEF Lost
<1> QED BY <1>1, <1>3, <1>18, <1>20, <1>21, BecomeGoes

LEMMA LaidOutGoes == ASSUME Inv, NEW k \in Keys, LaidOut(k) PROVE Goes({})
<1> DEFINE at == IF host.held[k].at # 0 THEN host.held[k].at ELSE 1
           laidOut == host.laidOut \cup {k}
           held == [host.held EXCEPT ![k] = [@ EXCEPT !.at = 0]]
           ats == [host.at EXCEPT ![k] = at]
           parked == [host.parked EXCEPT ![k] = at]
           t == [host EXCEPT !.laidOut = laidOut, !.held = held, !.at = ats, !.parked = parked]
<1>1. Standing(host, spared) /\ UNCHANGED dialog BY DEF Inv, LaidOut
<1>2. /\ host \in States /\ host.held \in [Keys -> Held] /\ host.laidOut \subseteq Keys
      /\ host.at \in [Keys -> Pages \cup {0}] /\ host.parked \in [Keys -> Pages \cup {0}]
  BY <1>1 DEF Standing, Core, States
<1>3. k \in OpenKeys(host)
  <2>1. IsOpen(host, k) BY DEF LaidOut
  <2> QED BY <2>1 DEF IsOpen, OpenKeys
<1>4. at \in Pages /\ at # 0
  <2>1. host.held[k].at \in Pages \cup {0} BY <1>2 DEF Held
  <2> QED BY <2>1, ReaderAssumption
<1>5. /\ held \in [Keys -> Held] /\ \A j \in Keys : held[j].status = host.held[j].status
  <2>1. \A h \in Held : [h EXCEPT !.at = 0] \in Held /\ [h EXCEPT !.at = 0].status = h.status BY DEF Held
  <2>2. host.held[k] \in Held BY <1>2
  <2> QED BY <1>2, <2>1, <2>2
<1>6. host.held \in [Keys -> Held] /\ [host.held EXCEPT ![k].at = 0] = held BY <1>2
<1>7. Become(t) BY <1>2, <1>6 DEF LaidOut
<1>8. laidOut \in SUBSET Keys /\ ats \in [Keys -> Pages \cup {0}] /\ parked \in [Keys -> Pages \cup {0}]
  BY <1>2, <1>4
<1>9. /\ ats[k] = at /\ parked[k] = at
      /\ \A j \in Keys \ {k} : ats[j] = host.at[j] /\ parked[j] = host.parked[j]
  BY <1>2
<1> HIDE DEF at, laidOut, held, ats, parked
<1>10. t \in States BY <1>2, <1>5, <1>8 DEF States
<1>11. /\ t.held = held /\ t.order = host.order /\ t.row = host.row /\ t.asleep = host.asleep
       /\ t.recent = host.recent /\ t.focus = host.focus /\ t.active = host.active
       /\ t.laidOut = laidOut /\ t.loads = host.loads /\ t.work = host.work /\ t.at = ats
       /\ t.parked = parked /\ t.settling = host.settling /\ t.marks = host.marks
  BY <1>2 DEF States
<1> HIDE DEF t
<1>12. \A j \in Keys : t.held[j].status = host.held[j].status BY <1>5, <1>11
<1>13. \A m \in t.loads : Pending(t, m)
  <2>1. \A m \in host.loads : m.key \in Keys /\ (m.current => m.key # k)
    BY <1>2 DEF States, Loadings, LaidOut
  <2>2. \A m \in host.loads : Pending(host, m) BY <1>1 DEF Standing, Core
  <2> QED BY <1>5, <1>11, <2>1, <2>2 DEF Pending, laidOut
<1>14. Drowsing(t, spared)
  <2>1. OpenKeys(t) = OpenKeys(host) BY <1>12 DEF OpenKeys
  <2> QED BY <1>1, <1>11, <2>1 DEF Standing, Core, Drowsing
<1>15. /\ t.laidOut \subseteq OpenKeys(host)
       /\ \A u \in t.settling : u.current => u.key \in OpenKeys(host)
       /\ \A j \in Keys : t.work[j] # "saved" => j \in t.laidOut
  BY <1>1, <1>3, <1>11 DEF Standing, Core, laidOut
<1>16. \A j \in t.laidOut : t.at[j] = t.parked[j] /\ t.at[j] # 0
  <2> SUFFICES ASSUME NEW j \in laidOut PROVE ats[j] = parked[j] /\ ats[j] # 0 BY <1>11
  <2>1. CASE j = k BY <1>4, <1>9, <2>1
  <2>2. CASE j # k
    <3>1. j \in host.laidOut /\ j \in Keys BY <1>2, <2>2 DEF laidOut
    <3> QED BY <1>1, <1>9, <2>2, <3>1 DEF Standing, Core
  <2> QED BY <2>1, <2>2
<1>17. Standing(t, spared) /\ Follows(host, t)
  BY <1>1, <1>10, <1>11, <1>12, <1>13, <1>14, <1>15, <1>16, AlikeFollows
<1>18. Lost(host, t) = {} BY <1>11 DEF Lost
<1> QED BY <1>1, <1>7, <1>17, <1>18, BecomeGoes

LEMMA ScrollGoes == ASSUME Inv, NEW k \in Keys, NEW p \in Pages, Scroll(k, p) PROVE Goes({})
<1> DEFINE ats == [host.at EXCEPT ![k] = p]
           parked == [host.parked EXCEPT ![k] = p]
           t == [host EXCEPT !.at = ats, !.parked = parked]
<1>1. Standing(host, spared) /\ UNCHANGED dialog /\ k \in host.laidOut BY DEF Inv, Scroll, InHand
<1>2. /\ host \in States /\ host.at \in [Keys -> Pages \cup {0}] /\ host.parked \in [Keys -> Pages \cup {0}]
      /\ host.laidOut \subseteq Keys
  BY <1>1 DEF Standing, Core, States
<1>3. Become(t) BY DEF Scroll
<1>4. p # 0 BY ReaderAssumption
<1>5. ats \in [Keys -> Pages \cup {0}] /\ parked \in [Keys -> Pages \cup {0}] BY <1>2
<1>6. /\ ats[k] = p /\ parked[k] = p
      /\ \A j \in Keys \ {k} : ats[j] = host.at[j] /\ parked[j] = host.parked[j]
  BY <1>2
<1> HIDE DEF ats, parked
<1>7. t \in States BY <1>2, <1>5 DEF States
<1>8. /\ t.held = host.held /\ t.order = host.order /\ t.row = host.row /\ t.asleep = host.asleep
      /\ t.recent = host.recent /\ t.focus = host.focus /\ t.active = host.active
      /\ t.laidOut = host.laidOut /\ t.loads = host.loads /\ t.work = host.work /\ t.at = ats
      /\ t.parked = parked /\ t.settling = host.settling
  BY <1>2 DEF States
<1> HIDE DEF t
<1>9. \A j \in Keys : t.held[j].status = host.held[j].status BY <1>8
<1>10. /\ \A m \in t.loads : Pending(t, m)
       /\ t.laidOut \subseteq OpenKeys(host)
       /\ \A u \in t.settling : u.current => u.key \in OpenKeys(host)
       /\ \A j \in Keys : t.work[j] # "saved" => j \in t.laidOut
       /\ Drowsing(t, spared)
  BY <1>1, <1>8 DEF Standing, Core, Drowsing, Pending, OpenKeys
<1>11. \A j \in t.laidOut : t.at[j] = t.parked[j] /\ t.at[j] # 0
  <2> SUFFICES ASSUME NEW j \in host.laidOut PROVE ats[j] = parked[j] /\ ats[j] # 0 BY <1>8
  <2>1. host.at[j] = host.parked[j] /\ host.at[j] # 0 /\ j \in Keys BY <1>1, <1>2 DEF Standing, Core
  <2> QED BY <1>4, <1>6, <2>1
<1>12. Standing(t, spared) /\ Follows(host, t) BY <1>1, <1>7, <1>8, <1>9, <1>10, <1>11, AlikeFollows
<1>13. Lost(host, t) = {} BY <1>8 DEF Lost
<1> QED BY <1>1, <1>3, <1>12, <1>13, BecomeGoes

\* Only what is to be saved of an open PDF changes.
LEMMA WorkGoes ==
    ASSUME Inv, NEW k \in host.laidOut, NEW w \in {"saved", "unsaved", "refused"},
           Become([host EXCEPT !.work[k] = w]), UNCHANGED dialog
    PROVE  Goes({})
<1> DEFINE work == [host.work EXCEPT ![k] = w]
           t == [host EXCEPT !.work = work]
<1>1. Standing(host, spared) BY DEF Inv
<1>2. /\ host \in States /\ host.work \in [Keys -> {"saved", "unsaved", "refused"}] /\ k \in Keys
  BY <1>1 DEF Standing, Core, States
<1>3. Become(t) OBVIOUS
<1>4. work \in [Keys -> {"saved", "unsaved", "refused"}] /\ \A j \in Keys \ {k} : work[j] = host.work[j]
  BY <1>2
<1> HIDE DEF work
<1>5. t \in States BY <1>2, <1>4 DEF States
<1>6. /\ t.held = host.held /\ t.order = host.order /\ t.row = host.row /\ t.asleep = host.asleep
      /\ t.recent = host.recent /\ t.focus = host.focus /\ t.active = host.active
      /\ t.laidOut = host.laidOut /\ t.loads = host.loads /\ t.work = work /\ t.at = host.at
      /\ t.parked = host.parked /\ t.settling = host.settling
  BY <1>2 DEF States
<1> HIDE DEF t
<1>7. \A j \in Keys : t.held[j].status = host.held[j].status BY <1>6
<1>8. /\ \A m \in t.loads : Pending(t, m)
      /\ t.laidOut \subseteq OpenKeys(host)
      /\ \A u \in t.settling : u.current => u.key \in OpenKeys(host)
      /\ \A j \in t.laidOut : t.at[j] = t.parked[j] /\ t.at[j] # 0
      /\ Drowsing(t, spared)
  BY <1>1, <1>6 DEF Standing, Core, Drowsing, Pending, OpenKeys
<1>9. \A j \in Keys : t.work[j] # "saved" => j \in t.laidOut
  BY <1>1, <1>4, <1>6 DEF Standing, Core
<1>10. Standing(t, spared) /\ Follows(host, t) BY <1>1, <1>5, <1>6, <1>7, <1>8, <1>9, AlikeFollows
<1>11. Lost(host, t) = {} BY <1>6 DEF Lost
<1> QED BY <1>3, <1>10, <1>11, BecomeGoes

LEMMA EditGoes == ASSUME Inv, NEW k \in Keys, Edit(k) PROVE Goes({})
<1>1. k \in host.laidOut BY DEF Edit, InHand, Inv, Standing, Core
<1>2. Become([host EXCEPT !.work[k] = "unsaved"]) /\ UNCHANGED dialog BY DEF Edit
<1> QED BY <1>1, <1>2, WorkGoes

LEMMA SavedGoes == ASSUME Inv, NEW k \in Keys, Saved(k) PROVE Goes({})
<1>1. k \in host.laidOut BY DEF Saved, Inv, Standing, Core
<1>2. PICK w \in {"saved", "refused"} : Become([host EXCEPT !.work[k] = w]) BY DEF Saved
<1>3. UNCHANGED dialog BY DEF Saved
<1> QED BY <1>1, <1>2, <1>3, WorkGoes

LEMMA KeepMineGoes == ASSUME Inv, NEW k \in Keys, KeepMine(k) PROVE Goes({})
<1>1. k \in host.laidOut BY DEF KeepMine, Inv, Standing, Core
<1>2. Become([host EXCEPT !.work[k] = "unsaved"]) /\ UNCHANGED dialog BY DEF KeepMine
<1> QED BY <1>1, <1>2, WorkGoes

\* The keys whose edits a step may take with it: those the user discards.
Discarded == {k \in Keys : Discard(k) \/ Reload(k)}

LEMMA NextGoes ==
    ASSUME LateFailures = FALSE, StrayDocuments = FALSE, Inv, Next
    PROVE  Goes(Keys) /\ (SlowCloses = FALSE => Goes(Discarded))
<1>1. ASSUME Goes({}) PROVE Goes(Keys) /\ Goes(Discarded) BY <1>1 DEF Goes
<1>2. ASSUME NEW k \in Keys, Goes({k}), Discard(k) \/ Reload(k) PROVE Goes(Keys) /\ Goes(Discarded)
  BY <1>2 DEF Goes, Discarded
<1>3. CASE \E k \in Keys : OpenReader(k) \/ ShowTab(k) \/ Close(k) \/ Sleep(k)
  BY <1>1, <1>3, OpenReaderGoes, ShowTabGoes, CloseGoes, SleepGoes
<1>4. CASE \E k \in Keys : Discard(k) \/ Reload(k) BY <1>2, <1>4, DiscardGoes, ReloadGoes
<1>5. CASE CancelDialog BY <1>1, <1>5, CancelGoes
<1>6. CASE \E l \in host.loads : Loaded(l) \/ Placed(l) \/ Opened(l) \/ LoadFailed(l)
  BY <1>1, <1>6, LoadedGoes, PlacedGoes, OpenedGoes, LoadFailedGoes
<1>7. CASE \E k \in Keys, p \in Pages : Scroll(k, p) BY <1>1, <1>7, ScrollGoes
<1>8. CASE \E k \in Keys : LaidOut(k) \/ Edit(k) \/ Saved(k) \/ KeepMine(k)
  BY <1>1, <1>8, LaidOutGoes, EditGoes, SavedGoes, KeepMineGoes
<1>9. CASE \E t \in host.settling : Settled(t)
  <2>1. PICK t \in host.settling : Settled(t) BY <1>9
  <2>2. Goes({t.key}) /\ (SlowCloses = FALSE => Goes({})) BY <2>1, SettledGoes
  <2>3. t.key \in Keys BY DoneFollows
  <2>4. Goes(Keys) BY <2>2, <2>3 DEF Goes
  <2> QED BY <1>1, <2>2, <2>4
<1>10. CASE \E t \in host.settling : NotSettled(t) BY <1>1, <1>10, NotSettledGoes
<1> QED BY <1>3, <1>4, <1>5, <1>6, <1>7, <1>8, <1>9, <1>10 DEF Next

-----------------------------------------------------------------------------
(* The theorems.                                                                 *)

LEMMA InitStands == ASSUME Init PROVE Inv
<1>1. /\ <<>> \in Rows /\ ToSet(<<>>) = {} /\ Cardinality(Keys) \in Nat BY EmptyRow, RowLength
<1>2. NotHeld \in Held /\ NotHeld.status = "none" BY <1>1 DEF NotHeld, Held, Indices
<1>3. NoMark \in Marks BY NoMarkIs
<1>4. host \in States BY <1>1, <1>2, <1>3 DEF Init, States
<1>5. /\ \A k \in Keys : host.held[k].status = "none" /\ host.work[k] = "saved"
      /\ host.order = <<>> /\ host.row = <<>> /\ host.asleep = <<>> /\ host.recent = <<>>
      /\ host.focus = None /\ host.active = None
      /\ host.laidOut = {} /\ host.loads = {} /\ host.settling = {}
  BY <1>2 DEF Init
<1>6. /\ OpenKeys(host) = {} /\ Coming(host) = {} /\ Awake(host) = {} /\ Asleep(host) = {}
      /\ LoadingKeys(host) = {} /\ Docs(host) = {}
  BY <1>1, <1>5 DEF OpenKeys, Coming, Awake, Asleep, LoadingKeys, Docs
<1>7. Drowsing(host, spared)
  <2>1. PastOf(host.recent) \subseteq {} BY <1>1, <1>5, PastShrinks
  <2> QED BY <2>1 DEF Drowsing
<1>8. Core(host, {}, spared) BY <1>1, <1>4, <1>5, <1>6, <1>7 DEF Core
<1> QED BY <1>5, <1>6, <1>8 DEF Inv, Standing, Shown, Focused, Init

LEMMA NextStands == ASSUME LateFailures = FALSE, StrayDocuments = FALSE, Inv, [Next]_vars PROVE Inv'
<1>1. CASE Next
  <2>1. Goes(Keys) BY <1>1, NextGoes
  <2> QED BY <2>1 DEF Goes, Inv
<1>2. CASE UNCHANGED vars
  <2>1. host' = host /\ dialog' = dialog /\ spared' = spared BY <1>2 DEF vars
  <2>2. Standing(host', spared') BY <2>1 DEF Inv
  <2> QED BY <2>1, <2>2 DEF Inv
<1> QED BY <1>1, <1>2

LEMMA StandsAlways == ASSUME LateFailures = FALSE, StrayDocuments = FALSE PROVE Spec => []Inv
<1>1. Init => Inv BY InitStands
<1>2. Inv /\ [Next]_vars => Inv' BY NextStands
<1> QED BY <1>1, <1>2, PTL DEF Spec

\* The invariant is what the runs check of the tabs, and more.
LEMMA StandsSound == ASSUME Inv PROVE TabsSound
<1>1. host \in States /\ Core(host, {}, spared) /\ Focused(host) BY DEF Inv, Standing, Core
<1>2. \A q \in Rows : q \in Seq(Keys) BY DEF Rows
<1>3. TypeOK BY <1>1, <1>2 DEF TypeOK, States, Marks, Indices, Inv
<1>4. FocusIsAwake BY <1>1 DEF FocusIsAwake, Focused, Core
<1>5. ManagerHoldsOpen
  <2>1. OpenKeys(host) = {k \in Keys : IsOpen(host, k)} BY <1>1, StatusIs
  <2>2. ToSet(host.order) = Docs(host) /\ OpenKeys(host) \subseteq Docs(host) BY <1>1, DocsAre DEF Core
  <2>3. \A k \in ToSet(host.order) : host.held[k].status \in {"open", "failed"}
    <3>1. Docs(host) \subseteq Awake(host) /\ Docs(host) \cap LoadingKeys(host) = {} BY <1>1, DocsAre
    <3> QED BY <1>1, <2>2, <3>1, StatusIs DEF OpenKeys, Coming, LoadingKeys
  <2> QED BY <1>1, <2>1, <2>2, <2>3, StatusIs DEF ManagerHoldsOpen, Core
<1>6. AwakeBound
  <2>1. Past(host) = PastOf(host.recent) BY DEF Past, PastOf
  <2>2. Past(host) \subseteq Keys
    <3>1. host.recent \in Rows BY <1>1 DEF States
    <3> QED BY <2>1, <3>1, PastShrinks, RowFacts
  <2>3. \A k \in Past(host) : IsOpen(host, k) => k \in PastOf(host.recent) \cap OpenKeys(host)
    BY <1>1, <2>1, <2>2, StatusIs
  <2> QED BY <1>1, <2>1, <2>3 DEF AwakeBound, Core, Drowsing
<1> QED BY <1>3, <1>4, <1>5, <1>6 DEF TabsSound

\* Between any two steps of the reader's callbacks, for any number of tabs and any
\* AWAKE_READERS, while loads fail only when waited for and no tab goes whose PDF EmbedPDF
\* keeps but could not open: the tab row shows an awake tab while there is one, EmbedPDF
\* holds the PDFs that are open and besides them only failed ones, a sleeping tab is no
\* awake one, and an open PDF past those shown last settles, or could not.
THEOREM TabsSoundHolds == ASSUME LateFailures = FALSE, StrayDocuments = FALSE PROVE Spec => []TabsSound
<1>1. Inv => TabsSound BY StandsSound
<1> QED BY <1>1, StandsAlways, PTL

\* While EmbedPDF shows the PDF of the shown tab, only the closing of a shown tab that
\* is not open can leave another one shown.
THEOREM FocusKeptShownHolds == ASSUME LateFailures = FALSE, StrayDocuments = FALSE PROVE Spec => FocusKeptShown
<1> DEFINE Parts == ShowsTheFocus /\ ~ShowsTheFocus'
                       => host.focus \notin Awake(host)' /\ ~IsOpen(host, host.focus)
<1>1. ASSUME Inv, [Next]_vars PROVE [Parts]_vars
  <2>1. CASE UNCHANGED vars BY <2>1
  <2>2. CASE Next
    <3>1. Inv' /\ Goes(Keys) BY <1>1, <2>2, NextStands, NextGoes
    <3>2. host \in States /\ host' \in States BY <1>1, <3>1 DEF Inv, Goes, Standing, Core
    <3>3. host.focus \in Keys \cup {None} /\ host'.focus \in Keys \cup {None} BY <3>2 DEF States
    <3>4. ShowsTheFocus <=> Faithful(host) BY <3>2, <3>3, StatusIs DEF ShowsTheFocus, Faithful
    <3>5. IsOpen(host', host'.focus) <=> host'.focus \in OpenKeys(host') BY <3>2, <3>3, StatusIs
    <3>6. ShowsTheFocus' <=> Faithful(host') BY <3>5 DEF ShowsTheFocus, Faithful
    <3>7. IsOpen(host, host.focus) <=> host.focus \in OpenKeys(host) BY <3>2, <3>3, StatusIs
    <3>8. Awake(host)' = Awake(host') BY DEF Awake
    <3>9. Parts BY <3>1, <3>4, <3>6, <3>7, <3>8 DEF Goes, Follows
    <3> QED BY <3>9
  <2> QED BY <1>1, <2>1, <2>2
<1>2. Inv /\ [Next]_vars => [Parts]_vars BY <1>1
<1> QED BY <1>2, StandsAlways, PTL DEF Spec, FocusKeptShown

\* A PDF that was laid out falls asleep with a mark on the page it was at.
THEOREM SleepsWhereItWasHolds == ASSUME LateFailures = FALSE, StrayDocuments = FALSE PROVE Spec => SleepsWhereItWas
<1> DEFINE Marked == \A k \in Keys : k \in host.laidOut /\ k \in Asleep(host)'
                        => host'.marks[k].at = host.at[k]
<1>1. ASSUME Inv, [Next]_vars PROVE [Marked]_vars
  <2>1. CASE UNCHANGED vars BY <2>1
  <2>2. CASE Next
    <3>1. Goes(Keys) BY <1>1, <2>2, NextGoes
    <3>2. Asleep(host)' = Asleep(host') BY DEF Asleep
    <3>3. Marked BY <3>1, <3>2 DEF Goes, Follows
    <3> QED BY <3>3
  <2> QED BY <1>1, <2>1, <2>2
<1>2. Inv /\ [Next]_vars => [Marked]_vars BY <1>1
<1> QED BY <1>2, StandsAlways, PTL DEF Spec, SleepsWhereItWas

\* When a close asked of one opening of a PDF is not carried out on another, unsaved or
\* refused edits go only where the user discards them.
THEOREM SettledBeforeClosedHolds ==
    ASSUME LateFailures = FALSE, StrayDocuments = FALSE, SlowCloses = FALSE PROVE Spec => SettledBeforeClosed
<1> DEFINE Asked == \A k \in Keys : Dropped(k) => Discard(k) \/ Reload(k)
<1>1. ASSUME Inv, [Next]_vars PROVE [Asked]_vars
  <2>1. CASE UNCHANGED vars BY <2>1
  <2>2. CASE Next
    <3>1. Goes(Discarded) BY <1>1, <2>2, NextGoes
    <3>2. \A k \in Keys : Dropped(k) => k \in Lost(host, host') BY DEF Dropped, Lost
    <3>3. Asked BY <3>1, <3>2 DEF Goes, Discarded
    <3> QED BY <3>3
  <2> QED BY <1>1, <2>1, <2>2
<1>2. Inv /\ [Next]_vars => [Asked]_vars BY <1>1
<1> QED BY <1>2, StandsAlways, PTL DEF Spec, SettledBeforeClosed
=============================================================================
