---------------------------- MODULE LibraryProofs ----------------------------
(***************************************************************************)
(* Theorems about Filing and Library, for any number of papers, tags,      *)
(* collections, saved searches, windows, requests and faults.              *)
(***************************************************************************)
EXTENDS Library, FiniteSetTheorems, WellFoundedInduction, TLAPS

-----------------------------------------------------------------------------
(* The tree of collections: what CollectionSubtree computes.               *)

\* A set of naturals has a least member: what the inductions below rest on.
LEMMA LeastNatural ==
    ASSUME NEW T \in SUBSET Nat, T # {}
    PROVE  \E n \in T : \A m \in T : n <= m
  <1> DEFINE R == {ss \in Nat \X Nat : ss[1] < ss[2]}
  <1>1. IsWellFoundedOn(R, Nat)
    BY NatLessThanWellFounded DEF OpToRel
  <1> HIDE DEF R
  <1>2. PICK n \in T : \A m \in T : <<m, n>> \notin R
    BY <1>1, WFMin
  <1>3. \A m \in T : ~(m < n)
    BY <1>2 DEF R
  <1> QED BY <1>3

\* Every collection was made after the one it lies in.
Rooted(parent) ==
    /\ DOMAIN parent \subseteq Ids
    /\ \A c \in DOMAIN parent : parent[c] = None \/ (parent[c] \in Ids /\ parent[c] < c)

Grow(parent, ids) == ids \cup Below(parent, ids)

\* The function CollectionSubtree is defined by, over its first N steps.
Grown(parent, id, n, g) == g = [k \in 0..n |-> IF k = 0 THEN {id} ELSE Grow(parent, g[k - 1])]

LEMMA GrownSteps ==
    ASSUME NEW parent, NEW id, NEW n \in Nat, NEW g, Grown(parent, id, n, g)
    PROVE  g[0] = {id} /\ \A k \in 1..n : g[k] = Grow(parent, g[k - 1])
  <1>1. ASSUME NEW k \in 0..n
        PROVE  g[k] = IF k = 0 THEN {id} ELSE Grow(parent, g[k - 1])
    BY DEF Grown
  <1> QED BY <1>1

LEMMA GrownExists ==
    ASSUME NEW parent, NEW id, NEW n \in Nat
    PROVE  \E g : Grown(parent, id, n, g)
  <1> DEFINE T == {m \in Nat : ~\E g : Grown(parent, id, m, g)}
  <1>1. SUFFICES ASSUME T # {} PROVE FALSE
    BY <1>1
  <1> HIDE DEF T
  <1>2. T \in SUBSET Nat
    BY DEF T
  <1>3. PICK m \in T : \A k \in T : m <= k
    BY <1>1, <1>2, LeastNatural
  <1>4. m \in Nat /\ ~\E g : Grown(parent, id, m, g)
    BY DEF T
  <1>5. CASE m = 0
    <2> DEFINE h == [k \in 0..0 |-> {id}]
    <2>1. h = [k \in 0..0 |-> IF k = 0 THEN {id} ELSE Grow(parent, h[k - 1])]
      <3>1. \A k \in 0..0 : k = 0
        OBVIOUS
      <3> QED BY <3>1
    <2> HIDE DEF h
    <2>2. Grown(parent, id, 0, h)
      BY <2>1 DEF Grown
    <2> QED BY <1>4, <1>5, <2>2
  <1>6. CASE m # 0
    <2>1. m - 1 \in Nat /\ m - 1 \notin T
      BY <1>3, <1>4, <1>6
    <2>2. PICK g : Grown(parent, id, m - 1, g)
      BY <2>1 DEF T
    <2> DEFINE h == [k \in 0..m |-> IF k = m THEN Grow(parent, g[m - 1]) ELSE g[k]]
    <2>3. g[0] = {id} /\ \A k \in 1..m - 1 : g[k] = Grow(parent, g[k - 1])
      BY <2>1, <2>2, GrownSteps
    <2>4. /\ h = [k \in 0..m |-> h[k]]
          /\ h[m] = Grow(parent, g[m - 1]) /\ \A k \in 0..m - 1 : h[k] = g[k]
      BY <1>4, <1>6
    <2> HIDE DEF h
    <2>5. ASSUME NEW k \in 0..m
          PROVE  h[k] = IF k = 0 THEN {id} ELSE Grow(parent, h[k - 1])
      <3>1. CASE k = 0
        <4>1. 0 \in 0..m - 1
          BY <1>4, <1>6
        <4> QED BY <2>3, <2>4, <3>1, <4>1
      <3>2. CASE k = m
        <4>1. m - 1 \in 0..m - 1
          BY <1>4, <1>6
        <4> QED BY <1>6, <2>4, <3>2, <4>1
      <3>3. CASE k \in 1..m - 1
        <4>1. k - 1 \in 0..m - 1 /\ k \in 0..m - 1 /\ k # 0
          BY <1>4, <3>3
        <4> QED BY <2>3, <2>4, <3>3, <4>1
      <3> QED BY <1>4, <3>1, <3>2, <3>3
    <2>6. h = [k \in 0..m |-> IF k = 0 THEN {id} ELSE Grow(parent, h[k - 1])]
      BY <2>4, <2>5
    <2> QED BY <1>4, <2>6 DEF Grown
  <1> QED BY <1>5, <1>6

\* CollectionSubtree is the last of steps G.
Steps(parent, id, g) ==
    /\ g[0] = {id} /\ \A k \in 1..Cap : g[k] = Grow(parent, g[k - 1])
    /\ CollectionSubtree(parent, id) = g[Cap]

LEMMA SubtreeGrown ==
    ASSUME NEW parent, NEW id
    PROVE  \E g : Steps(parent, id, g)
  <1> DEFINE h == CHOOSE f : f = [n \in 0..Cap |-> IF n = 0 THEN {id}
                                    ELSE LET ids == f[n - 1] IN ids \cup Below(parent, ids)]
  <1>1. \E g : Grown(parent, id, Cap, g)
    BY GrownExists, FilingAssumption
  <1>2. h = [n \in 0..Cap |-> IF n = 0 THEN {id} ELSE LET ids == h[n - 1] IN ids \cup Below(parent, ids)]
    BY <1>1 DEF Grown, Grow
  <1>3. CollectionSubtree(parent, id) = h[Cap]
    BY DEF CollectionSubtree
  <1> HIDE DEF h
  <1>4. Grown(parent, id, Cap, h)
    BY <1>2 DEF Grown, Grow
  <1>5. h[0] = {id} /\ \A k \in 1..Cap : h[k] = Grow(parent, h[k - 1])
    BY <1>4, GrownSteps, FilingAssumption
  <1> QED BY <1>3, <1>5 DEF Steps

\* It is the least set with the collection that holds what lies in it.
LEMMA SubtreeLeast ==
    ASSUME NEW parent, NEW id, NEW S, id \in S, Below(parent, S) \subseteq S
    PROVE  CollectionSubtree(parent, id) \subseteq S
  <1>1. PICK g : Steps(parent, id, g)
    BY SubtreeGrown
  <1> DEFINE T == {m \in 0..Cap : ~(g[m] \subseteq S)}
  <1>2. SUFFICES ASSUME T # {} PROVE FALSE
    BY <1>1, <1>2, FilingAssumption DEF Steps
  <1> HIDE DEF T
  <1>3. T \in SUBSET Nat
    BY DEF T
  <1>4. PICK m \in T : \A k \in T : m <= k
    BY <1>2, <1>3, LeastNatural
  <1>5. m \in 0..Cap /\ ~(g[m] \subseteq S)
    BY DEF T
  <1>6. m # 0
    BY <1>1, <1>5 DEF Steps
  <1>7. g[m - 1] \subseteq S
    BY <1>4, <1>5, <1>6, FilingAssumption DEF T
  <1>8. g[m] = Grow(parent, g[m - 1])
    BY <1>1, <1>5, <1>6, FilingAssumption DEF Steps
  <1> QED BY <1>5, <1>7, <1>8 DEF Grow, Below

LEMMA SubtreeHas ==
    ASSUME NEW parent, NEW id
    PROVE  id \in CollectionSubtree(parent, id)
  <1>1. PICK g : Steps(parent, id, g)
    BY SubtreeGrown
  <1> DEFINE T == {m \in 0..Cap : id \notin g[m]}
  <1>2. SUFFICES ASSUME T # {} PROVE FALSE
    BY <1>1, <1>2, FilingAssumption DEF Steps
  <1> HIDE DEF T
  <1>3. T \in SUBSET Nat
    BY DEF T
  <1>4. PICK m \in T : \A k \in T : m <= k
    BY <1>2, <1>3, LeastNatural
  <1>5. m \in 0..Cap /\ id \notin g[m]
    BY DEF T
  <1>6. m # 0
    BY <1>1, <1>5 DEF Steps
  <1>7. id \in g[m - 1]
    BY <1>4, <1>5, <1>6, FilingAssumption DEF T
  <1>8. g[m] = Grow(parent, g[m - 1])
    BY <1>1, <1>5, <1>6, FilingAssumption DEF Steps
  <1> QED BY <1>5, <1>7, <1>8 DEF Grow

LEMMA SubtreeWithin ==
    ASSUME NEW parent, NEW id
    PROVE  CollectionSubtree(parent, id) \subseteq {id} \cup DOMAIN parent
  <1>1. Below(parent, {id} \cup DOMAIN parent) \subseteq {id} \cup DOMAIN parent
    BY DEF Below
  <1> QED BY <1>1, SubtreeLeast

\* What lies in a collection of the subtree is in it: its steps reach the last one.
LEMMA SubtreeClosed ==
    ASSUME NEW parent, Rooted(parent), NEW id \in Ids
    PROVE  Below(parent, CollectionSubtree(parent, id)) \subseteq CollectionSubtree(parent, id)
  <1>1. PICK g : Steps(parent, id, g)
    BY SubtreeGrown
  <1>2. /\ g[0] = {id}
        /\ \A k \in 1..Cap : g[k] = g[k - 1] \cup Below(parent, g[k - 1])
    BY <1>1 DEF Steps, Grow
  <1>3. \A m, n \in 0..Cap : m <= n => g[m] \subseteq g[n]
    <2> SUFFICES ASSUME NEW m \in 0..Cap PROVE \A n \in 0..Cap : m <= n => g[m] \subseteq g[n]
      OBVIOUS
    <2> DEFINE T == {n \in 0..Cap : m <= n /\ ~(g[m] \subseteq g[n])}
    <2>1. SUFFICES ASSUME T # {} PROVE FALSE
      BY <2>1
    <2> HIDE DEF T
    <2>2. T \in SUBSET Nat
      BY DEF T
    <2>3. PICK n \in T : \A k \in T : n <= k
      BY <2>1, <2>2, LeastNatural
    <2>4. n \in 0..Cap /\ m <= n /\ ~(g[m] \subseteq g[n])
      BY DEF T
    <2>5. m # n
      BY <2>4
    <2>6. n - 1 \in 0..Cap /\ m <= n - 1 /\ n \in 1..Cap
      BY <2>4, <2>5, FilingAssumption
    <2>7. g[m] \subseteq g[n - 1]
      BY <2>3, <2>4, <2>6, FilingAssumption DEF T
    <2> QED BY <1>2, <2>4, <2>6, <2>7
  <1>4. g[Cap] \subseteq Ids
    BY <1>1, SubtreeWithin DEF Rooted, Steps
  <1>5. \A x \in g[Cap] : x \in g[x]
    <2> DEFINE T == {x \in g[Cap] : x \notin g[x]}
    <2>1. SUFFICES ASSUME T # {} PROVE FALSE
      BY <2>1
    <2> HIDE DEF T
    <2>2. T \in SUBSET Nat
      BY <1>4 DEF T, Ids
    <2>3. PICK x \in T : \A y \in T : x <= y
      BY <2>1, <2>2, LeastNatural
    <2>4. x \in g[Cap] /\ x \notin g[x] /\ x \in 1..Cap
      BY <1>4 DEF T, Ids
    <2> DEFINE U == {n \in 0..Cap : x \in g[n]}
    <2>5. U \in SUBSET Nat /\ U # {}
      BY <2>4, FilingAssumption
    <2>6. PICK n \in U : \A k \in U : n <= k
      BY <2>5, LeastNatural
    <2>7. n \in 0..Cap /\ x \in g[n] /\ \A k \in 0..Cap : x \in g[k] => n <= k
      BY <2>6
    <2> HIDE DEF U
    <2>8. n # 0
      <3>1. g[0] \subseteq g[x]
        BY <1>3, <2>4, FilingAssumption
      <3> QED BY <2>4, <2>7, <3>1
    <2>9. n \in 1..Cap /\ n - 1 \in 0..Cap /\ x \notin g[n - 1]
      BY <2>7, <2>8, FilingAssumption
    <2>10. x \in DOMAIN parent /\ parent[x] \in g[n - 1]
      BY <1>2, <2>7, <2>9 DEF Below
    <2> DEFINE y == parent[x]
    <2>11. y \in g[Cap]
      BY <1>3, <2>9, <2>10, FilingAssumption
    <2>12. y \in 1..Cap /\ y < x
      BY <1>4, <2>10, <2>11, FilingAssumption DEF Rooted, Ids
    <2>13. y \in g[y]
      BY <2>3, <2>4, <2>11, <2>12 DEF T
    <2>14. y + 1 \in 1..Cap /\ y + 1 <= x /\ (y + 1) - 1 = y
      BY <2>4, <2>12, FilingAssumption
    <2>15. x \in g[y + 1]
      BY <1>2, <2>10, <2>13, <2>14 DEF Below
    <2>16. y + 1 \in 0..Cap /\ x \in 0..Cap
      BY <2>4, <2>14
    <2> QED BY <1>3, <2>4, <2>14, <2>15, <2>16
  <1>6. ASSUME NEW c \in DOMAIN parent, parent[c] \in g[Cap]
        PROVE  c \in g[Cap]
    <2> DEFINE y == parent[c]
    <2>1. c \in 1..Cap /\ y \in 1..Cap /\ y < c
      BY <1>4, <1>6, FilingAssumption DEF Rooted, Ids
    <2>2. y + 1 \in 1..Cap /\ (y + 1) - 1 = y
      BY <2>1, FilingAssumption
    <2>3. c \in g[y + 1]
      BY <1>2, <1>5, <1>6, <2>2 DEF Below
    <2>4. y + 1 \in 0..Cap /\ Cap \in 0..Cap /\ y + 1 <= Cap
      BY <2>2, FilingAssumption
    <2> QED BY <1>3, <2>3, <2>4
  <1> QED BY <1>1, <1>6 DEF Below, Steps

\* What is in the subtree is its root, or lies in what is in it.
LEMMA SubtreeStep ==
    ASSUME NEW parent, Rooted(parent), NEW id \in Ids, NEW d
    PROVE  d \in CollectionSubtree(parent, id) <=>
              d = id \/ (d \in DOMAIN parent /\ parent[d] \in CollectionSubtree(parent, id))
  <1> DEFINE sub == CollectionSubtree(parent, id)
             S == {x \in sub : x = id \/ (x \in DOMAIN parent /\ parent[x] \in sub)}
  <1>1. id \in sub /\ Below(parent, sub) \subseteq sub
    BY SubtreeHas, SubtreeClosed
  <1>2. id \in S /\ Below(parent, S) \subseteq S
    BY <1>1 DEF Below
  <1>3. sub \subseteq S
    BY <1>2, SubtreeLeast
  <1> QED BY <1>1, <1>3 DEF Below

-----------------------------------------------------------------------------
(* What the bucket's changes leave of a library.                           *)

IsSearch(s) ==
    /\ DOMAIN s = {"match", "rules"} /\ s.match \in {"all", "any"}
    /\ s.rules # {} /\ \A r \in s.rules : r.is \in BOOLEAN

\* A library of which M ids have been made.
TypedLibrary(l, m) ==
    /\ DOMAIN l = {"items", "tags", "filed", "parent", "searches"}
    /\ l.items \subseteq Items
    /\ l.tags \in [Items -> SUBSET Tags] /\ l.filed \in [Items -> SUBSET Ids]
    /\ DOMAIN l.parent \subseteq 1..m /\ DOMAIN l.searches \subseteq 1..m
    /\ \A s \in DOMAIN l.searches : IsSearch(l.searches[s])

\* Nothing in it dangles, and every collection was made after the one it lies in.
Rests(l) ==
    /\ \A i \in Items : l.filed[i] \subseteq DOMAIN l.parent
    /\ \A c \in DOMAIN l.parent :
          l.parent[c] = None \/ (l.parent[c] \in DOMAIN l.parent /\ l.parent[c] < c)
    /\ \A s \in DOMAIN l.searches : KnownRuleCollections(l, l.searches[s].rules)

SoundLibrary(l, m) == TypedLibrary(l, m) /\ Rests(l)

LEMMA SoundRooted ==
    ASSUME NEW m \in 0..Cap, NEW l, SoundLibrary(l, m)
    PROVE  Rooted(l.parent) /\ DOMAIN l.parent \subseteq Ids
  BY FilingAssumption DEF SoundLibrary, TypedLibrary, Rests, Rooted, Ids

\* The library of a bucket that has just been made.
LEMMA NewLibrarySound ==
    ASSUME NEW m \in 0..Cap, NEW items \in SUBSET Items
    PROVE  SoundLibrary(NewLibrary(items), m)
  BY DEF NewLibrary, Empty, SoundLibrary, TypedLibrary, Rests

\* N is library L after keys lost and gained the same tags and collections.
FiledAs(l, n, keys, tags, collections) ==
    /\ \A i \in Items :
          /\ n.tags[i] = IF i \in keys THEN Delta(l.tags[i], tags.add, tags.remove) ELSE l.tags[i]
          /\ n.filed[i] = IF i \in keys THEN Delta(l.filed[i], collections.add, collections.remove)
                          ELSE l.filed[i]
    /\ n.items = l.items /\ n.parent = l.parent

LEMMA FileManySound ==
    ASSUME NEW m \in 0..Cap, NEW l, SoundLibrary(l, m), NEW keys,
           NEW tags, NEW collections,
           tags.add \subseteq Tags, collections.add \subseteq DOMAIN l.parent
    PROVE  /\ SoundLibrary(FileMany(l, keys, tags, collections), m)
           /\ FiledAs(l, FileMany(l, keys, tags, collections), keys, tags, collections)
  <1> DEFINE n == FileMany(l, keys, tags, collections)
  <1>1. TypedLibrary(l, m) /\ Rests(l)
    BY DEF SoundLibrary
  <1>2. /\ DOMAIN n = DOMAIN l
        /\ n.items = l.items /\ n.parent = l.parent /\ n.searches = l.searches
        /\ n.tags = [i \in Items |-> IF i \in keys THEN Delta(l.tags[i], tags.add, tags.remove)
                                     ELSE l.tags[i]]
        /\ n.filed = [i \in Items |->
              IF i \in keys THEN Delta(l.filed[i], collections.add, collections.remove) ELSE l.filed[i]]
    BY <1>1 DEF FileMany, TypedLibrary
  <1> HIDE DEF n
  <1>3. n.tags \in [Items -> SUBSET Tags]
    BY <1>1, <1>2 DEF TypedLibrary, Delta
  <1>4. n.filed \in [Items -> SUBSET Ids]
    BY <1>1, <1>2, SoundRooted DEF TypedLibrary, Delta
  <1>5. TypedLibrary(n, m)
    BY <1>1, <1>2, <1>3, <1>4 DEF TypedLibrary
  <1>6. Rests(n)
    BY <1>1, <1>2 DEF Rests, Delta, KnownRuleCollections, KnownCollections
  <1> QED BY <1>2, <1>5, <1>6 DEF SoundLibrary, FiledAs, n

LEMMA RemoveItemSound ==
    ASSUME NEW m \in 0..Cap, NEW l, SoundLibrary(l, m), NEW k \in Items
    PROVE  /\ SoundLibrary(RemoveItem(l, k), m)
           /\ \A i \in Items :
                 /\ RemoveItem(l, k).tags[i] = IF i = k THEN {} ELSE l.tags[i]
                 /\ RemoveItem(l, k).filed[i] = IF i = k THEN {} ELSE l.filed[i]
           /\ RemoveItem(l, k).parent = l.parent
  <1> DEFINE n == RemoveItem(l, k)
  <1>1. TypedLibrary(l, m) /\ Rests(l)
    BY DEF SoundLibrary
  <1>2. /\ DOMAIN n = DOMAIN l
        /\ n.items = l.items \ {k} /\ n.parent = l.parent /\ n.searches = l.searches
        /\ n.tags = [l.tags EXCEPT ![k] = {}] /\ n.filed = [l.filed EXCEPT ![k] = {}]
    BY <1>1 DEF RemoveItem, TypedLibrary
  <1> HIDE DEF n
  <1>3. /\ n.tags \in [Items -> SUBSET Tags]
        /\ \A i \in Items : n.tags[i] = IF i = k THEN {} ELSE l.tags[i]
    BY <1>1, <1>2 DEF TypedLibrary
  <1>4. /\ n.filed \in [Items -> SUBSET Ids]
        /\ \A i \in Items : n.filed[i] = IF i = k THEN {} ELSE l.filed[i]
    BY <1>1, <1>2 DEF TypedLibrary
  <1>5. TypedLibrary(n, m)
    BY <1>1, <1>2, <1>3, <1>4 DEF TypedLibrary
  <1>6. Rests(n)
    BY <1>1, <1>2, <1>4 DEF Rests, KnownRuleCollections, KnownCollections
  <1> QED BY <1>2, <1>3, <1>4, <1>5, <1>6 DEF SoundLibrary, n

LEMMA RepairedSearch ==
    ASSUME NEW s, IsSearch(s), NEW gone, NEW r \in Repaired(s, gone)
    PROVE  /\ IsSearch(r) /\ r.match = s.match /\ r.rules = {x \in s.rules : ~Settled(x, gone)}
           /\ \A x \in s.rules : Settled(x, gone) => (~x.is) # (s.match = "any")
  BY DEF IsSearch, Repaired

\* N is library L after the collections GONE were deleted.
Deleted(l, n, gone) ==
    /\ n.items = l.items /\ n.tags = l.tags
    /\ \A i \in Items : n.filed[i] = l.filed[i] \ gone
    /\ DOMAIN n.parent = DOMAIN l.parent \ gone
    /\ \A c \in DOMAIN n.parent : n.parent[c] = l.parent[c]
    /\ DOMAIN n.searches = {s \in DOMAIN l.searches : Repaired(l.searches[s], gone) # {}}
    /\ \A s \in DOMAIN n.searches : n.searches[s] \in Repaired(l.searches[s], gone)

LEMMA DeleteCollectionSound ==
    ASSUME NEW m \in 0..Cap, NEW l, SoundLibrary(l, m), NEW id \in DOMAIN l.parent
    PROVE  /\ SoundLibrary(DeleteCollection(l, id), m)
           /\ Deleted(l, DeleteCollection(l, id), CollectionSubtree(l.parent, id))
  <1> DEFINE gone == CollectionSubtree(l.parent, id)
             n == DeleteCollection(l, id)
             left == {s \in DOMAIN l.searches : Repaired(l.searches[s], gone) # {}}
  <1>1. TypedLibrary(l, m) /\ Rests(l) /\ Rooted(l.parent) /\ id \in Ids
    BY SoundRooted DEF SoundLibrary
  <1>2. Below(l.parent, gone) \subseteq gone
    BY <1>1, SubtreeClosed
  <1>3. /\ DOMAIN n = DOMAIN l
        /\ n.items = l.items /\ n.tags = l.tags
        /\ n.filed = [i \in Items |-> l.filed[i] \ gone]
        /\ n.parent = [c \in DOMAIN l.parent \ gone |-> l.parent[c]]
        /\ n.searches = [s \in left |-> CHOOSE r \in Repaired(l.searches[s], gone) : TRUE]
    BY <1>1 DEF DeleteCollection, TypedLibrary
  <1> HIDE DEF n, gone
  <1>4. /\ DOMAIN n.searches = left
        /\ \A s \in left : s \in DOMAIN l.searches /\ n.searches[s] \in Repaired(l.searches[s], gone)
    BY <1>3
  <1> HIDE DEF left
  <1>5. TypedLibrary(n, m)
    <2>1. n.filed \in [Items -> SUBSET Ids]
      BY <1>1, <1>3 DEF TypedLibrary
    <2>2. \A s \in left : IsSearch(n.searches[s])
      BY <1>1, <1>4, RepairedSearch DEF TypedLibrary
    <2>3. DOMAIN n.parent \subseteq 1..m /\ DOMAIN n.searches \subseteq 1..m
      BY <1>1, <1>3, <1>4 DEF TypedLibrary
    <2> QED BY <1>1, <1>3, <1>4, <2>1, <2>2, <2>3 DEF TypedLibrary
  <1>6. Rests(n)
    <2>1. \A i \in Items : n.filed[i] \subseteq DOMAIN n.parent
      BY <1>1, <1>3 DEF Rests
    <2>2. \A c \in DOMAIN n.parent :
            n.parent[c] = None \/ (n.parent[c] \in DOMAIN n.parent /\ n.parent[c] < c)
      BY <1>1, <1>2, <1>3 DEF Rests, Below
    <2>3. ASSUME NEW s \in left
          PROVE  KnownRuleCollections(n, n.searches[s].rules)
      <3>1. IsSearch(l.searches[s]) /\ KnownRuleCollections(l, l.searches[s].rules)
        BY <1>1, <1>4, <2>3 DEF TypedLibrary, Rests
      <3>2. n.searches[s].rules = {x \in l.searches[s].rules : ~Settled(x, gone)}
        BY <1>4, <2>3, <3>1, RepairedSearch
      <3> QED BY <1>3, <3>1, <3>2 DEF KnownRuleCollections, KnownCollections, Settled
    <2> QED BY <1>4, <2>1, <2>2, <2>3 DEF Rests
  <1>7. /\ \A i \in Items : n.filed[i] = l.filed[i] \ gone
        /\ DOMAIN n.parent = DOMAIN l.parent \ gone
        /\ \A c \in DOMAIN n.parent : n.parent[c] = l.parent[c]
    BY <1>3
  <1> QED BY <1>3, <1>4, <1>5, <1>6, <1>7 DEF SoundLibrary, Deleted, n, gone, left

LEMMA AddCollectionSound ==
    ASSUME NEW m \in 0..Cap, m + 1 <= Cap, NEW l, SoundLibrary(l, m),
           NEW p \in DOMAIN l.parent \cup {None}
    PROVE  LET n == AddCollection(l, m + 1, p)
           IN SoundLibrary(n, m + 1) /\ n.tags = l.tags /\ n.filed = l.filed
  <1> DEFINE n == AddCollection(l, m + 1, p)
  <1>1. TypedLibrary(l, m) /\ Rests(l)
    BY DEF SoundLibrary
  <1>2. /\ DOMAIN n = DOMAIN l
        /\ n.items = l.items /\ n.tags = l.tags /\ n.filed = l.filed /\ n.searches = l.searches
        /\ n.parent = [c \in DOMAIN l.parent \cup {m + 1} |-> IF c = m + 1 THEN p ELSE l.parent[c]]
    BY <1>1 DEF AddCollection, TypedLibrary
  <1> HIDE DEF n
  <1>3. /\ DOMAIN n.parent = DOMAIN l.parent \cup {m + 1} /\ n.parent[m + 1] = p
        /\ \A c \in DOMAIN l.parent : n.parent[c] = l.parent[c] /\ c \in 1..m
    BY <1>1, <1>2, FilingAssumption DEF TypedLibrary
  <1>4. TypedLibrary(n, m + 1)
    BY <1>1, <1>2, <1>3, FilingAssumption DEF TypedLibrary
  <1>5. Rests(n)
    <2>1. p = None \/ (p \in DOMAIN n.parent /\ p < m + 1)
      BY <1>3, FilingAssumption
    <2>2. \A c \in DOMAIN n.parent :
            n.parent[c] = None \/ (n.parent[c] \in DOMAIN n.parent /\ n.parent[c] < c)
      BY <1>1, <1>3, <2>1 DEF Rests
    <2> QED BY <1>1, <1>2, <1>3, <2>2 DEF Rests, KnownRuleCollections, KnownCollections
  <1> QED BY <1>2, <1>4, <1>5 DEF SoundLibrary, n

LEMMA PutSearchSound ==
    ASSUME NEW m \in 0..Cap, NEW l, SoundLibrary(l, m), NEW id \in 1..m,
           NEW s, IsSearch(s), KnownRuleCollections(l, s.rules)
    PROVE  LET n == PutSearch(l, id, s)
           IN SoundLibrary(n, m) /\ n.tags = l.tags /\ n.filed = l.filed
  <1> DEFINE n == PutSearch(l, id, s)
  <1>1. TypedLibrary(l, m) /\ Rests(l)
    BY DEF SoundLibrary
  <1>2. /\ DOMAIN n = DOMAIN l
        /\ n.items = l.items /\ n.tags = l.tags /\ n.filed = l.filed /\ n.parent = l.parent
        /\ n.searches = [x \in DOMAIN l.searches \cup {id} |-> IF x = id THEN s ELSE l.searches[x]]
    BY <1>1 DEF PutSearch, TypedLibrary
  <1> HIDE DEF n
  <1>3. TypedLibrary(n, m)
    BY <1>1, <1>2 DEF TypedLibrary
  <1>4. Rests(n)
    BY <1>1, <1>2 DEF Rests, KnownRuleCollections, KnownCollections
  <1> QED BY <1>2, <1>3, <1>4 DEF SoundLibrary, n

LEMMA DeleteSearchSound ==
    ASSUME NEW m \in 0..Cap, NEW l, SoundLibrary(l, m), NEW id
    PROVE  LET n == DeleteSearch(l, id)
           IN SoundLibrary(n, m) /\ n.tags = l.tags /\ n.filed = l.filed
  <1> DEFINE n == DeleteSearch(l, id)
  <1>1. TypedLibrary(l, m) /\ Rests(l)
    BY DEF SoundLibrary
  <1>2. /\ DOMAIN n = DOMAIN l
        /\ n.items = l.items /\ n.tags = l.tags /\ n.filed = l.filed /\ n.parent = l.parent
        /\ n.searches = [x \in DOMAIN l.searches \ {id} |-> l.searches[x]]
    BY <1>1 DEF DeleteSearch, TypedLibrary
  <1> HIDE DEF n
  <1>3. TypedLibrary(n, m)
    BY <1>1, <1>2 DEF TypedLibrary
  <1>4. Rests(n)
    BY <1>1, <1>2 DEF Rests, KnownRuleCollections, KnownCollections
  <1> QED BY <1>2, <1>3, <1>4 DEF SoundLibrary, n

LEMMA ImportSound ==
    ASSUME NEW m \in 0..Cap, NEW l, SoundLibrary(l, m), NEW items \in SUBSET Items
    PROVE  LET n == [l EXCEPT !.items = items]
           IN SoundLibrary(n, m) /\ n.tags = l.tags /\ n.filed = l.filed
  <1> DEFINE n == [l EXCEPT !.items = items]
  <1>1. TypedLibrary(l, m) /\ Rests(l)
    BY DEF SoundLibrary
  <1>2. /\ DOMAIN n = DOMAIN l
        /\ n.items = items /\ n.tags = l.tags /\ n.filed = l.filed /\ n.parent = l.parent
        /\ n.searches = l.searches
    BY <1>1 DEF TypedLibrary
  <1> HIDE DEF n
  <1> QED BY <1>1, <1>2 DEF TypedLibrary, Rests, KnownRuleCollections, KnownCollections, SoundLibrary, n

LEMMA SoundLater ==
    ASSUME NEW m \in 0..Cap, NEW k \in m..Cap, NEW l, TypedLibrary(l, m)
    PROVE  TypedLibrary(l, k)
  BY FilingAssumption DEF TypedLibrary

-----------------------------------------------------------------------------
(* What the bucket makes of a request.                                     *)

\* A request as the windows' controls make it.
Request(r) ==
    /\ r.op = "tags" => r.add \subseteq Tags /\ r.meant.add = r.add /\ r.meant.remove = r.remove
    /\ r.op \in {"delete", "send"} => \E i \in Items : r.keys = {i}
    /\ r.op \in {"newSearch", "putSearch"} => IsSearch(r.search)
    /\ r.op = "import" => r.keys \subseteq Items

\* The users' words on every item, those that are gone included.
SaidStands ==
    /\ DOMAIN said = Items /\ \A i \in Items : DOMAIN said[i] = {"tags", "filed"}
    /\ \A i \in Items : server.tags[i] = said[i].tags /\ server.filed[i] = said[i].filed

Carries(l, told) ==
    \A i \in Items : /\ DOMAIN told[i] = {"tags", "filed"}
                     /\ l.tags[i] = told[i].tags /\ l.filed[i] = told[i].filed

\* What one request makes of the library is what its user was told.
LEMMA OutcomeSound ==
    ASSUME made \in 0..Cap, SoundLibrary(server, made), SaidStands,
           NEW r, Request(r), Served(server, r), Makes(r) => made + 1 <= Cap
    PROVE  /\ SoundLibrary(Outcome(server, r), IF Makes(r) THEN made + 1 ELSE made)
           /\ Carries(Outcome(server, r), Told(r))
  <1>0. /\ TypedLibrary(server, made) /\ Rests(server)
        /\ DOMAIN said = Items /\ \A i \in Items : DOMAIN said[i] = {"tags", "filed"}
        /\ \A i \in Items : server.tags[i] = said[i].tags /\ server.filed[i] = said[i].filed
    BY FilingAssumption DEF SoundLibrary, SaidStands
  <1>1. CASE r.op = "tags"
    <2>1. /\ Outcome(server, r) = FileMany(server, r.keys, r, NoChange) /\ ~Makes(r)
          /\ r.add \subseteq Tags /\ NoChange.add = {} /\ NoChange.remove = {}
          /\ NoChange.add \subseteq DOMAIN server.parent
      BY <1>1 DEF Outcome, Makes, Request, NoChange
    <2> DEFINE n == FileMany(server, r.keys, r, NoChange)
    <2>2. SoundLibrary(n, made) /\ FiledAs(server, n, r.keys, r, NoChange)
      BY <2>1, FileManySound
    <2> HIDE DEF n
    <2>4. \A i \in Items :
            /\ DOMAIN Told(r)[i] = {"tags", "filed"}
            /\ Told(r)[i].tags = IF i \in r.keys THEN Delta(said[i].tags, r.add, r.remove) ELSE said[i].tags
            /\ Told(r)[i].filed = said[i].filed
      <3> SUFFICES ASSUME NEW i \in Items
                   PROVE  /\ DOMAIN Told(r)[i] = {"tags", "filed"}
                          /\ Told(r)[i].tags = IF i \in r.keys THEN Delta(said[i].tags, r.add, r.remove)
                                               ELSE said[i].tags
                          /\ Told(r)[i].filed = said[i].filed
        OBVIOUS
      <3>1. CASE i \in r.keys
        <4>1. Told(r)[i] = [[said[i] EXCEPT !.tags = Delta(said[i].tags, r.add, r.remove)]
                              EXCEPT !.filed = @]
          BY <1>1, <3>1 DEF Told, Request
        <4> QED BY <1>0, <3>1, <4>1
      <3>2. CASE i \notin r.keys
        BY <1>0, <1>1, <3>2 DEF Told
      <3> QED BY <3>1, <3>2
    <2>5. \A values : Delta(values, NoChange.add, NoChange.remove) = values
      BY <2>1 DEF Delta
    <2>6. \A i \in Items :
            /\ n.tags[i] = IF i \in r.keys THEN Delta(server.tags[i], r.add, r.remove) ELSE server.tags[i]
            /\ n.filed[i] = server.filed[i]
      BY <2>2, <2>5 DEF FiledAs
    <2>7. Carries(n, Told(r))
      BY <1>0, <2>4, <2>6 DEF Carries
    <2> QED BY <2>1, <2>2, <2>7 DEF n
  <1>2. CASE r.op = "collections"
    <2>1. /\ Outcome(server, r) = FileMany(server, r.keys, NoChange, r) /\ ~Makes(r)
          /\ r.add \subseteq DOMAIN server.parent /\ NoChange.add = {} /\ NoChange.remove = {}
          /\ NoChange.add \subseteq Tags
      BY <1>2 DEF Outcome, Makes, Served, KnownCollections, NoChange
    <2> DEFINE n == FileMany(server, r.keys, NoChange, r)
    <2>2. SoundLibrary(n, made) /\ FiledAs(server, n, r.keys, NoChange, r)
      BY <2>1, FileManySound
    <2> HIDE DEF n
    <2>4. \A i \in Items :
            /\ DOMAIN Told(r)[i] = {"tags", "filed"}
            /\ Told(r)[i].tags = said[i].tags
            /\ Told(r)[i].filed = IF i \in r.keys THEN Delta(said[i].filed, r.add, r.remove) ELSE said[i].filed
      <3> SUFFICES ASSUME NEW i \in Items
                   PROVE  /\ DOMAIN Told(r)[i] = {"tags", "filed"}
                          /\ Told(r)[i].tags = said[i].tags
                          /\ Told(r)[i].filed = IF i \in r.keys THEN Delta(said[i].filed, r.add, r.remove)
                                                ELSE said[i].filed
        OBVIOUS
      <3>1. CASE i \in r.keys
        <4>1. Told(r)[i] = [[said[i] EXCEPT !.tags = @]
                              EXCEPT !.filed = Delta(said[i].filed, r.add, r.remove)]
          BY <1>2, <3>1 DEF Told
        <4> QED BY <1>0, <3>1, <4>1
      <3>2. CASE i \notin r.keys
        BY <1>0, <1>2, <3>2 DEF Told
      <3> QED BY <3>1, <3>2
    <2>5. \A values : Delta(values, NoChange.add, NoChange.remove) = values
      BY <2>1 DEF Delta
    <2>6. \A i \in Items :
            /\ n.tags[i] = server.tags[i]
            /\ n.filed[i] = IF i \in r.keys THEN Delta(server.filed[i], r.add, r.remove) ELSE server.filed[i]
      BY <2>2, <2>5 DEF FiledAs
    <2>7. Carries(n, Told(r))
      BY <1>0, <2>4, <2>6 DEF Carries
    <2> QED BY <2>1, <2>2, <2>7 DEF n
  <1>3. CASE r.op \in {"delete", "send"}
    <2>1. PICK k \in Items : r.keys = {k}
      BY <1>3 DEF Request
    <2>2. (CHOOSE i \in r.keys : TRUE) = k
      BY <2>1
    <2>3. Outcome(server, r) = RemoveItem(server, k) /\ ~Makes(r)
      BY <1>3, <2>2 DEF Outcome, Makes
    <2>4. SoundLibrary(RemoveItem(server, k), made)
      BY RemoveItemSound
    <2>5. \A i \in Items : /\ RemoveItem(server, k).tags[i] = IF i = k THEN {} ELSE server.tags[i]
                           /\ RemoveItem(server, k).filed[i] = IF i = k THEN {} ELSE server.filed[i]
      BY RemoveItemSound
    <2>6. \A i \in Items : Told(r)[i] = IF i = k THEN [tags |-> {}, filed |-> {}] ELSE said[i]
      BY <1>3, <2>1 DEF Told
    <2>7. Carries(RemoveItem(server, k), Told(r))
      <3> SUFFICES ASSUME NEW i \in Items
                   PROVE  /\ DOMAIN Told(r)[i] = {"tags", "filed"}
                          /\ RemoveItem(server, k).tags[i] = Told(r)[i].tags
                          /\ RemoveItem(server, k).filed[i] = Told(r)[i].filed
        BY DEF Carries
      <3>1. CASE i = k
        BY <2>5, <2>6, <3>1
      <3>2. CASE i # k
        BY <1>0, <2>5, <2>6, <3>2
      <3> QED BY <3>1, <3>2
    <2> QED BY <2>3, <2>4, <2>7
  <1>4. CASE r.op = "deleteCollection"
    <2> DEFINE gone == CollectionSubtree(server.parent, r.id)
    <2>1. /\ Outcome(server, r) = DeleteCollection(server, r.id) /\ ~Makes(r)
          /\ r.id \in DOMAIN server.parent
      BY <1>4 DEF Outcome, Makes, Served
    <2>2. /\ SoundLibrary(DeleteCollection(server, r.id), made)
          /\ Deleted(server, DeleteCollection(server, r.id), gone)
      BY <2>1, DeleteCollectionSound
    <2> HIDE DEF gone
    <2>3. \A i \in Items : Told(r)[i] = [said[i] EXCEPT !.filed = @ \ gone]
      BY <1>4 DEF Told, gone
    <2>4. \A i \in Items : /\ DOMAIN Told(r)[i] = {"tags", "filed"}
                           /\ Told(r)[i].tags = said[i].tags /\ Told(r)[i].filed = said[i].filed \ gone
      BY <1>0, <2>3
    <2> DEFINE n == DeleteCollection(server, r.id)
    <2>5. n.tags = server.tags /\ \A i \in Items : n.filed[i] = server.filed[i] \ gone
      BY <2>2 DEF Deleted
    <2> HIDE DEF n
    <2>6. Carries(n, Told(r))
      BY <1>0, <2>4, <2>5 DEF Carries
    <2> QED BY <2>1, <2>2, <2>6 DEF n
  <1>5. CASE r.op \notin {"tags", "collections", "delete", "send", "deleteCollection"}
    <2>1. \A i \in Items : Told(r)[i] = said[i]
      BY <1>5 DEF Told
    <2> DEFINE n == Outcome(server, r)
    <2>2. SUFFICES /\ SoundLibrary(n, IF Makes(r) THEN made + 1 ELSE made)
                   /\ n.tags = server.tags /\ n.filed = server.filed
      BY <1>0, <2>1, <2>2 DEF Carries
    <2> HIDE DEF n
    <2>3. CASE r.op = "newCollection"
      <3>1. n = AddCollection(server, made + 1, r.parent) /\ Makes(r)
        BY <2>3 DEF Outcome, Makes, n
      <3>2. r.parent \in DOMAIN server.parent \cup {None}
        BY <2>3 DEF Served, KnownCollections
      <3>3. made + 1 <= Cap
        BY <3>1
      <3> QED BY <3>1, <3>2, <3>3, AddCollectionSound
    <2>4. CASE r.op = "newSearch"
      <3>1. n = PutSearch(server, made + 1, r.search) /\ Makes(r)
        BY <2>4 DEF Outcome, Makes, n
      <3>2. IsSearch(r.search) /\ KnownRuleCollections(server, r.search.rules)
        BY <2>4 DEF Served, Request
      <3>3. /\ made + 1 \in 0..Cap /\ made + 1 \in made..Cap /\ made + 1 \in 1..made + 1
            /\ SoundLibrary(server, made + 1)
        <4>1. /\ made + 1 \in 0..Cap /\ made + 1 \in made..Cap /\ made + 1 \in 1..made + 1
          BY <3>1, FilingAssumption
        <4> QED BY <4>1, SoundLater DEF SoundLibrary
      <3>4. SoundLibrary(n, made + 1) /\ n.tags = server.tags /\ n.filed = server.filed
        BY <3>1, <3>2, <3>3, PutSearchSound
      <3> QED BY <3>1, <3>4
    <2>5. CASE r.op = "putSearch"
      <3>1. n = PutSearch(server, r.id, r.search) /\ ~Makes(r)
        BY <2>5 DEF Outcome, Makes, n
      <3>2. IsSearch(r.search) /\ KnownRuleCollections(server, r.search.rules) /\ r.id \in 1..made
        BY <1>0, <2>5 DEF Served, Request, TypedLibrary
      <3> QED BY <3>1, <3>2, PutSearchSound
    <2>6. CASE r.op = "deleteSearch"
      <3>1. n = DeleteSearch(server, r.id) /\ ~Makes(r)
        BY <2>6 DEF Outcome, Makes, n
      <3> QED BY <3>1, DeleteSearchSound
    <2>7. CASE r.op = "import"
      <3>1. n = [server EXCEPT !.items = server.items \cup r.keys] /\ ~Makes(r)
        BY <2>7 DEF Outcome, Makes, n
      <3>2. server.items \cup r.keys \in SUBSET Items
        BY <1>0, <2>7 DEF Request, TypedLibrary
      <3> QED BY <3>1, <3>2, ImportSound
    <2>8. CASE r.op \notin {"newCollection", "newSearch", "putSearch", "deleteSearch", "import"}
      <3>1. n = server /\ ~Makes(r)
        BY <1>5, <2>8 DEF Outcome, Makes, n
      <3> QED BY <3>1
    <2> QED BY <2>3, <2>4, <2>5, <2>6, <2>7, <2>8
  <1> QED BY <1>1, <1>2, <1>3, <1>4, <1>5

-----------------------------------------------------------------------------
(* What a view, a rule and a saved search select.                          *)

\* The parents of a collection, itself among them, are the collections it is below.
Descent(parent, line) ==
    line = [c \in Ids |-> {c} \cup IF c \in DOMAIN parent /\ parent[c] # None THEN line[parent[c]] ELSE {}]

LEMMA DescentExists ==
    ASSUME NEW parent, Rooted(parent)
    PROVE  \E line : Descent(parent, line)
  <1> DEFINE line == [d \in Ids |-> {c \in Ids : d \in CollectionSubtree(parent, c)}]
  <1>1. /\ DOMAIN line = Ids /\ line = [d \in Ids |-> line[d]]
        /\ \A c, d \in Ids : c \in line[d] <=> d \in CollectionSubtree(parent, c)
        /\ \A d \in Ids : line[d] \subseteq Ids
    OBVIOUS
  <1> HIDE DEF line
  <1>2. ASSUME NEW d \in Ids
        PROVE  line[d] = {d} \cup IF d \in DOMAIN parent /\ parent[d] # None THEN line[parent[d]] ELSE {}
    <2>1. CASE d \in DOMAIN parent /\ parent[d] # None
      <3>1. parent[d] \in Ids
        BY <2>1 DEF Rooted
      <3>2. ASSUME NEW c \in Ids
            PROVE  c \in line[d] <=> c = d \/ c \in line[parent[d]]
        BY <1>1, <2>1, <3>1, SubtreeStep
      <3>3. line[d] \subseteq Ids /\ line[parent[d]] \subseteq Ids
        BY <1>1, <3>1
      <3> QED BY <2>1, <3>2, <3>3
    <2>2. CASE ~(d \in DOMAIN parent /\ parent[d] # None)
      <3>1. ASSUME NEW c \in Ids
            PROVE  c \in line[d] <=> c = d
        <4>1. d \in DOMAIN parent => parent[d] \notin CollectionSubtree(parent, c)
          BY <2>2, SubtreeWithin, FilingAssumption DEF Rooted, Ids
        <4> QED BY <1>1, <4>1, SubtreeStep
      <3> QED BY <1>1, <2>2, <3>1
    <2> QED BY <2>1, <2>2
  <1>3. Descent(parent, line)
    BY <1>1, <1>2 DEF Descent
  <1> QED BY <1>3

LEMMA DescentIsSubtree ==
    ASSUME NEW parent, Rooted(parent), NEW line, Descent(parent, line), NEW c \in Ids
    PROVE  \A d \in Ids : c \in line[d] <=> d \in CollectionSubtree(parent, c)
  <1> DEFINE T == {d \in Ids : ~(c \in line[d] <=> d \in CollectionSubtree(parent, c))}
  <1>1. SUFFICES ASSUME T # {} PROVE FALSE
    BY <1>1
  <1> HIDE DEF T
  <1>2. T \in SUBSET Nat
    BY DEF T, Ids
  <1>3. PICK d \in T : \A e \in T : d <= e
    BY <1>1, <1>2, LeastNatural
  <1>4. d \in Ids /\ ~(c \in line[d] <=> d \in CollectionSubtree(parent, c))
    BY DEF T
  <1>5. line[d] = {d} \cup IF d \in DOMAIN parent /\ parent[d] # None THEN line[parent[d]] ELSE {}
    BY <1>4 DEF Descent
  <1>6. d \in CollectionSubtree(parent, c) <=>
           d = c \/ (d \in DOMAIN parent /\ parent[d] \in CollectionSubtree(parent, c))
    BY SubtreeStep
  <1>7. CASE d \in DOMAIN parent /\ parent[d] # None
    <2>1. parent[d] \in Ids /\ parent[d] < d
      BY <1>7 DEF Rooted
    <2>2. c \in line[parent[d]] <=> parent[d] \in CollectionSubtree(parent, c)
      BY <1>3, <1>4, <2>1, FilingAssumption DEF T, Ids
    <2> QED BY <1>4, <1>5, <1>6, <1>7, <2>2
  <1>8. CASE ~(d \in DOMAIN parent /\ parent[d] # None)
    <2>1. d \in DOMAIN parent => parent[d] \notin CollectionSubtree(parent, c)
      BY <1>8, SubtreeWithin, FilingAssumption DEF Rooted, Ids
    <2> QED BY <1>4, <1>5, <1>6, <1>8, <2>1
  <1> QED BY <1>7, <1>8

\* A collection's view holds the items of every collection whose line of parents leads to it.
LEMMA ViewIsDescent ==
    ASSUME NEW m \in 0..Cap, SoundLibrary(server, m)
    PROVE  SubtreeIsDescent
  <1> DEFINE parent == server.parent
             line == CHOOSE f : f = [c \in Ids |-> {c} \cup
                        IF c \in DOMAIN parent /\ parent[c] # None THEN f[parent[c]] ELSE {}]
  <1>1. /\ Rooted(parent) /\ DOMAIN parent \subseteq Ids
        /\ \A i \in Items : server.filed[i] \subseteq Ids
        /\ server.items \subseteq Items
    BY SoundRooted DEF SoundLibrary, TypedLibrary
  <1>2. Descent(parent, line)
    BY <1>1, DescentExists DEF Descent
  <1> HIDE DEF line
  <1>3. ASSUME NEW c \in DOMAIN parent
        PROVE  {i \in server.items : server.filed[i] \cap CollectionSubtree(parent, c) # {}} =
                  {i \in server.items : \E d \in server.filed[i] : c \in line[d]}
    <2>1. \A d \in Ids : c \in line[d] <=> d \in CollectionSubtree(parent, c)
      BY <1>1, <1>2, DescentIsSubtree
    <2>2. ASSUME NEW i \in server.items
          PROVE  server.filed[i] \cap CollectionSubtree(parent, c) # {} <=>
                    \E d \in server.filed[i] : c \in line[d]
      BY <1>1, <2>1
    <2> QED BY <2>2
  <1> QED BY <1>3 DEF SubtreeIsDescent, ItemsInView, line

\* A view selects what a smart collection of its one rule selects.
LEMMA ViewIsRule ==
    ASSUME NEW l, NEW v, NEW f, NEW x,
           ItemsInView(l, v) \subseteq l.items,
           \A i \in l.items, b \in BOOLEAN :
              Has(l, [field |-> f, is |-> b, value |-> x], i) = (i \in ItemsInView(l, v))
    PROVE  Agrees(l, v, f, x)
  <1>1. ASSUME NEW r
        PROVE  ItemsMatching(l, [match |-> "all", rules |-> {r}]) = RuleMatches(l, r)
    BY DEF ItemsMatching, RuleMatches
  <1> DEFINE rule(b) == [field |-> f, is |-> b, value |-> x]
             shown == ItemsInView(l, v)
  <1>2. ASSUME NEW b \in BOOLEAN
        PROVE  RuleMatches(l, rule(b)) = {i \in l.items : (i \in shown) = b}
    <2>1. rule(b).is = b /\ \A i \in l.items : Has(l, rule(b), i) = (i \in shown)
      OBVIOUS
    <2> HIDE DEF rule
    <2>2. RuleMatches(l, rule(b)) = {i \in l.items : Has(l, rule(b), i) = b}
      BY <2>1 DEF RuleMatches
    <2> QED BY <2>1, <2>2
  <1>3. RuleMatches(l, rule(TRUE)) = shown /\ RuleMatches(l, rule(FALSE)) = l.items \ shown
    <2> HIDE DEF rule, shown
    <2>1. RuleMatches(l, rule(TRUE)) = {i \in l.items : (i \in shown) = TRUE}
      BY <1>2
    <2>2. RuleMatches(l, rule(FALSE)) = {i \in l.items : (i \in shown) = FALSE}
      BY <1>2
    <2>3. \A i : ((i \in shown) = TRUE) <=> i \in shown
      OBVIOUS
    <2>4. \A i : ((i \in shown) = FALSE) <=> i \notin shown
      OBVIOUS
    <2>5. shown \subseteq l.items
      BY DEF shown
    <2> QED BY <2>1, <2>2, <2>3, <2>4, <2>5
  <1> QED BY <1>1, <1>3 DEF Agrees

LEMMA ViewsAreRules ==
    ASSUME NEW l
    PROVE  /\ \A c : Agrees(l, [kind |-> "collection", id |-> c], "collection", c)
           /\ \A t : Agrees(l, [kind |-> "tag", id |-> t], "tag", t)
           /\ Agrees(l, [kind |-> "unread"], "reading", "unread")
           /\ Agrees(l, [kind |-> "recent"], "added", 7)
           /\ Agrees(l, [kind |-> "offline"], "status", "offline")
  <1>1. ASSUME NEW c
        PROVE  Agrees(l, [kind |-> "collection", id |-> c], "collection", c)
    <2> DEFINE v == [kind |-> "collection", id |-> c]
    <2>1. ItemsInView(l, v) = {i \in l.items : FiledUnder(l, c, i)}
      BY DEF FiledUnder, ItemsInView
    <2>2. \A i, b : Has(l, [field |-> "collection", is |-> b, value |-> c], i) = FiledUnder(l, c, i)
      BY DEF Has
    <2>3. \A i : FiledUnder(l, c, i) \in BOOLEAN
      BY DEF FiledUnder
    <2> HIDE DEF v
    <2>4. Agrees(l, v, "collection", c)
      BY <2>1, <2>2, <2>3, ViewIsRule
    <2> QED BY <2>4 DEF v
  <1>2. ASSUME NEW t
        PROVE  Agrees(l, [kind |-> "tag", id |-> t], "tag", t)
    <2> DEFINE v == [kind |-> "tag", id |-> t]
    <2>1. ItemsInView(l, v) = {i \in l.items : t \in l.tags[i]}
      BY DEF ItemsInView
    <2>2. \A i, b : Has(l, [field |-> "tag", is |-> b, value |-> t], i) = (t \in l.tags[i])
      BY DEF Has
    <2> HIDE DEF v
    <2>3. Agrees(l, v, "tag", t)
      BY <2>1, <2>2, ViewIsRule
    <2> QED BY <2>3 DEF v
  <1>3. Agrees(l, [kind |-> "unread"], "reading", "unread")
    <2> DEFINE v == [kind |-> "unread"]
    <2>1. ItemsInView(l, v) = {i \in l.items : Facts[i].page = 0}
      BY DEF ItemsInView
    <2>2. \A i, b : Has(l, [field |-> "reading", is |-> b, value |-> "unread"], i) = (Facts[i].page = 0)
      BY DEF Has, ReadingState
    <2> HIDE DEF v
    <2>3. Agrees(l, v, "reading", "unread")
      BY <2>1, <2>2, ViewIsRule
    <2> QED BY <2>3 DEF v
  <1>4. Agrees(l, [kind |-> "recent"], "added", 7)
    <2> DEFINE v == [kind |-> "recent"]
    <2>1. ItemsInView(l, v) = {i \in l.items : Facts[i].age <= 7}
      BY DEF ItemsInView
    <2>2. \A i, b : Has(l, [field |-> "added", is |-> b, value |-> 7], i) = (Facts[i].age <= 7)
      BY DEF Has
    <2> HIDE DEF v
    <2>3. Agrees(l, v, "added", 7)
      BY <2>1, <2>2, ViewIsRule
    <2> QED BY <2>3 DEF v
  <1>5. Agrees(l, [kind |-> "offline"], "status", "offline")
    <2> DEFINE v == [kind |-> "offline"]
    <2>1. ItemsInView(l, v) = {i \in l.items : Availability(i) = "offline"}
      BY DEF ItemsInView
    <2>2. \A i, b : Has(l, [field |-> "status", is |-> b, value |-> "offline"], i) =
                       (Availability(i) = "offline")
      BY DEF Has
    <2> HIDE DEF v
    <2>3. Agrees(l, v, "status", "offline")
      BY <2>1, <2>2, ViewIsRule
    <2> QED BY <2>3 DEF v
  <1> QED BY <1>1, <1>2, <1>3, <1>4, <1>5

\* A search repaired for collections no item lies below any more selects what it selected.
LEMMA RepairedMeans ==
    ASSUME NEW l, NEW gone, NEW s, IsSearch(s),
           \A r \in s.rules : Settled(r, gone) => \A i \in l.items : Has(l, r, i) = FALSE
    PROVE  /\ \A t \in Repaired(s, gone) : ItemsMatching(l, t) = ItemsMatching(l, s)
           /\ Repaired(s, gone) = {} => ItemsMatching(l, s) \in {{}, l.items}
  <1> DEFINE met(r, i) == i \in RuleMatches(l, r)
             kept == {r \in s.rules : ~Settled(r, gone)}
             deciding(r) == Settled(r, gone) /\ (~r.is) = (s.match = "any")
  <1>1. ASSUME NEW r \in s.rules, Settled(r, gone), NEW i \in l.items
        PROVE  met(r, i) <=> ~r.is
    BY <1>1 DEF RuleMatches, IsSearch
  <1>2. \A t : ItemsMatching(l, t) =
                  {i \in l.items : IF t.match = "all" THEN \A r \in t.rules : met(r, i)
                                   ELSE \E r \in t.rules : met(r, i)}
    BY DEF ItemsMatching
  <1> HIDE DEF met
  <1>3. CASE \E r \in s.rules : deciding(r)
    <2>1. PICK d \in s.rules : deciding(d)
      BY <1>3
    <2>2. Repaired(s, gone) = {}
      BY <1>3 DEF Repaired
    <2>3. CASE s.match = "all"
      <3>1. d.is
        BY <2>1, <2>3 DEF IsSearch
      <3>2. \A i \in l.items : ~met(d, i)
        BY <1>1, <2>1, <3>1
      <3>3. ItemsMatching(l, s) = {}
        BY <1>2, <2>3, <3>2
      <3> QED BY <2>2, <3>3
    <2>4. CASE s.match = "any"
      <3>1. ~d.is
        BY <2>1, <2>4 DEF IsSearch
      <3>2. \A i \in l.items : met(d, i)
        BY <1>1, <2>1, <3>1
      <3>3. ItemsMatching(l, s) = l.items
        BY <1>2, <2>4, <3>2
      <3> QED BY <2>2, <3>3
    <2> QED BY <2>3, <2>4 DEF IsSearch
  <1>4. CASE ~\E r \in s.rules : deciding(r)
    <2>1. ASSUME NEW r \in s.rules, Settled(r, gone)
          PROVE  r.is <=> s.match = "any"
      BY <1>4, <2>1 DEF IsSearch
    <2>2. CASE kept = {}
      <3>1. \A r \in s.rules, i \in l.items : met(r, i) <=> s.match # "any"
        BY <1>1, <2>1, <2>2
      <3>2. ItemsMatching(l, s) \in {{}, l.items}
        <4>1. CASE s.match = "all"
          <5>1. ItemsMatching(l, s) = l.items
            BY <1>2, <3>1, <4>1
          <5> QED BY <5>1
        <4>2. CASE s.match = "any"
          <5>1. ItemsMatching(l, s) = {}
            BY <1>2, <3>1, <4>2
          <5> QED BY <5>1
        <4> QED BY <4>1, <4>2 DEF IsSearch
      <3>3. Repaired(s, gone) = {}
        BY <2>2 DEF Repaired
      <3> QED BY <3>2, <3>3
    <2>3. CASE kept # {}
      <3>1. Repaired(s, gone) # {}
        BY <1>4, <2>3 DEF Repaired
      <3>2. ASSUME NEW t \in Repaired(s, gone)
            PROVE  ItemsMatching(l, t) = ItemsMatching(l, s)
        <4>1. t.match = s.match /\ t.rules = kept
          BY RepairedSearch
        <4>2. \A r \in s.rules, i \in l.items : r \notin kept => (met(r, i) <=> s.match # "any")
          BY <1>1, <2>1
        <4>3. kept \subseteq s.rules
          OBVIOUS
        <4> HIDE DEF kept
        <4>4. CASE s.match = "all"
          <5>1. \A i \in l.items : (\A r \in kept : met(r, i)) <=> (\A r \in s.rules : met(r, i))
            BY <4>2, <4>3, <4>4
          <5> QED BY <1>2, <4>1, <4>4, <5>1
        <4>5. CASE s.match = "any"
          <5>1. \A i \in l.items : (\E r \in kept : met(r, i)) <=> (\E r \in s.rules : met(r, i))
            BY <4>2, <4>3, <4>5
          <5> QED BY <1>2, <4>1, <4>5, <5>1
        <4> QED BY <4>4, <4>5 DEF IsSearch
      <3> QED BY <3>1, <3>2
    <2> QED BY <2>2, <2>3
  <1> QED BY <1>3, <1>4

\* Once a collection is deleted with those below it, a rule on one of them holds for no item.
LEMMA DeleteKeepsMeaning ==
    ASSUME NEW m \in 0..Cap, NEW l, SoundLibrary(l, m), NEW id \in DOMAIN l.parent,
           NEW s \in DOMAIN l.searches
    PROVE  LET n == DeleteCollection(l, id)
               meant == ItemsMatching(n, l.searches[s])
           IN IF s \in DOMAIN n.searches THEN ItemsMatching(n, n.searches[s]) = meant
              ELSE meant \in {{}, n.items}
  <1> DEFINE gone == CollectionSubtree(l.parent, id)
             n == DeleteCollection(l, id)
  <1>1. Deleted(l, n, gone) /\ n.items \subseteq Items
    BY DeleteCollectionSound DEF SoundLibrary, TypedLibrary
  <1>2. Below(l.parent, gone) \subseteq gone /\ IsSearch(l.searches[s])
    BY SoundRooted, SubtreeClosed DEF SoundLibrary, TypedLibrary
  <1> HIDE DEF n, gone
  <1>3. ASSUME NEW r, Settled(r, gone), NEW i \in n.items
        PROVE  Has(n, r, i) = FALSE
    <2>1. r.field = "collection" /\ r.value \in gone
      BY <1>3 DEF Settled
    <2>2. Below(n.parent, {r.value}) = {}
      BY <1>1, <1>2, <2>1 DEF Below, Deleted
    <2>3. CollectionSubtree(n.parent, r.value) \subseteq {r.value}
      BY <2>2, SubtreeLeast
    <2>4. n.filed[i] \cap CollectionSubtree(n.parent, r.value) = {}
      BY <1>1, <2>1, <2>3 DEF Deleted
    <2>5. FiledUnder(n, r.value, i) = FALSE
      BY <2>4 DEF FiledUnder
    <2> QED BY <2>1, <2>5 DEF Has
  <1>4. /\ \A t \in Repaired(l.searches[s], gone) :
              ItemsMatching(n, t) = ItemsMatching(n, l.searches[s])
        /\ Repaired(l.searches[s], gone) = {} => ItemsMatching(n, l.searches[s]) \in {{}, n.items}
    BY <1>2, <1>3, RepairedMeans
  <1> QED BY <1>1, <1>4 DEF Deleted, n

-----------------------------------------------------------------------------
(* One window: its queue, the request under way and what it shows.         *)

Elements(q) == {q[n] : n \in DOMAIN q}
QueueOf(q) == q \in Seq(Elements(q))

LEMMA AppendElements ==
    ASSUME NEW q, QueueOf(q), NEW r
    PROVE  /\ QueueOf(Append(q, r)) /\ Append(q, r) # <<>>
           /\ Elements(Append(q, r)) = Elements(q) \cup {r}
  <1> DEFINE S == Elements(q) \cup {r}
             n == Append(q, r)
  <1>1. q \in Seq(Elements(q)) /\ DOMAIN q = 1..Len(q) /\ Len(q) \in Nat
    BY DEF QueueOf
  <1>2. q \in Seq(S)
    BY <1>1
  <1>3. /\ n \in Seq(S) /\ Len(n) = Len(q) + 1 /\ DOMAIN n = 1..Len(q) + 1
        /\ \A k \in 1..Len(q) : n[k] = q[k]
        /\ n[Len(q) + 1] = r
    BY <1>1, <1>2
  <1> HIDE DEF n
  <1>4. Elements(n) = S
    <2>1. ASSUME NEW x \in Elements(n) PROVE x \in S
      BY <1>1, <1>3 DEF Elements
    <2>2. ASSUME NEW x \in Elements(q) PROVE x \in Elements(n)
      <3>1. PICK k \in 1..Len(q) : x = q[k]
        BY <1>1 DEF Elements
      <3>2. k \in DOMAIN n /\ n[k] = x
        BY <1>1, <1>3, <3>1
      <3> QED BY <3>2 DEF Elements
    <2>3. r \in Elements(n)
      <3>1. Len(q) + 1 \in DOMAIN n
        BY <1>1, <1>3
      <3> QED BY <1>3, <3>1 DEF Elements
    <2> QED BY <2>1, <2>2, <2>3
  <1>5. QueueOf(n) /\ n # <<>>
    BY <1>1, <1>3, <1>4 DEF QueueOf
  <1> QED BY <1>4, <1>5 DEF n

LEMMA TailElements ==
    ASSUME NEW q, QueueOf(q), q # <<>>
    PROVE  QueueOf(Tail(q)) /\ Elements(q) = Elements(Tail(q)) \cup {Head(q)}
  <1> DEFINE n == Tail(q)
  <1>1. q \in Seq(Elements(q)) /\ DOMAIN q = 1..Len(q) /\ Len(q) \in Nat \ {0} /\ Head(q) = q[1]
    BY DEF QueueOf
  <1>2. /\ n \in Seq(Elements(q)) /\ Len(n) = Len(q) - 1 /\ DOMAIN n = 1..Len(n)
        /\ \A k \in 1..Len(n) : n[k] = q[k + 1]
    BY <1>1
  <1> HIDE DEF n
  <1>3. ASSUME NEW x \in Elements(n) PROVE x \in Elements(q)
    <2>1. PICK k \in 1..Len(n) : x = n[k]
      BY <1>2, <1>3 DEF Elements
    <2>2. k + 1 \in DOMAIN q /\ q[k + 1] = x
      BY <1>1, <1>2, <2>1
    <2> QED BY <2>2 DEF Elements
  <1>4. ASSUME NEW x \in Elements(q), x # Head(q) PROVE x \in Elements(n)
    <2>1. PICK k \in 1..Len(q) : x = q[k]
      BY <1>1 DEF Elements
    <2>2. k # 1
      BY <1>1, <1>4, <2>1
    <2>3. k - 1 \in 1..Len(n) /\ n[k - 1] = q[(k - 1) + 1] /\ (k - 1) + 1 = k
      BY <1>1, <1>2, <2>1, <2>2
    <2> QED BY <1>2, <2>1, <2>3 DEF Elements
  <1>5. Head(q) \in Elements(q)
    BY <1>1 DEF Elements
  <1>6. QueueOf(n)
    <2>1. \A k \in DOMAIN n : n[k] \in Elements(n)
      BY DEF Elements
    <2> QED BY <1>2, <2>1 DEF QueueOf
  <1> QED BY <1>3, <1>4, <1>5, <1>6 DEF n

\* What may wait in a queue.
Queued(r) == Request(r) /\ r.op \notin {"newCollection", "newSearch"}

LEMMA ReadQueued == Queued(Read)
  BY DEF Queued, Request, Read

\* The request under way of a window that shows the library of write AT.
UnderWay(a, at, v, m) ==
    /\ Queued(a.req) /\ a.stage \in {"sent", "done", "refused"}
    /\ a.stage = "done" => a.at \in at..v /\ TypedLibrary(a.lib, m)

\* A window of a bucket after V writes and M ids; and one whose queue is to be pumped.
Pumping(s, v, m) ==
    /\ DOMAIN s = {"status", "lib", "at", "failed", "waiting", "queue", "active"}
    /\ s.status \in {"loading", "ready", "failed"} /\ s.failed \in BOOLEAN /\ s.waiting \in BOOLEAN
    /\ TypedLibrary(s.lib, m) /\ s.at \in 0..v
    /\ QueueOf(s.queue) /\ \A r \in Elements(s.queue) : Queued(r)
    /\ s.waiting => Read \in Elements(s.queue)
    /\ \A a, b \in s.active : a = b
    /\ \A a \in s.active : UnderWay(a, s.at, v, m)

WindowSound(s, v, m) == Pumping(s, v, m) /\ (s.queue # <<>> => s.active # {})

\* A window that is stale says so or will be told: by an answer, by a read that waits, or by the
\* export if it HEARS. One that an answer leaves stale will be told by the other two.
Aware(s, v, hears) ==
    /\ s.at < v \/ s.status = "loading" =>
          \/ s.failed \/ s.status = "failed" \/ hears
          \/ \E a \in s.active : a.stage \in {"sent", "refused"} \/ a.at = v
          \/ Read \in Elements(s.queue)
    /\ \A a \in s.active : a.stage = "done" /\ a.at < v => hears \/ Read \in Elements(s.queue)

Became(s, n, v, m, hears) == WindowSound(n, v, m) /\ n.at >= s.at /\ Aware(n, v, hears)

\* Writes and ids made since do not disturb a window that will hear of them.
LEMMA WindowLater ==
    ASSUME NEW v \in Nat, NEW v2 \in Nat, v <= v2, NEW m \in 0..Cap, NEW m2 \in m..Cap,
           NEW h \in BOOLEAN, NEW h2 \in BOOLEAN, h => h2, v2 = v \/ h2,
           NEW s, WindowSound(s, v, m), Aware(s, v, h)
    PROVE  WindowSound(s, v2, m2) /\ Aware(s, v2, h2)
  <1>1. \A l : TypedLibrary(l, m) => TypedLibrary(l, m2)
    BY SoundLater
  <1>2. \A a \in s.active : UnderWay(a, s.at, v, m) => UnderWay(a, s.at, v2, m2)
    BY <1>1 DEF UnderWay, WindowSound, Pumping
  <1>3. WindowSound(s, v2, m2)
    BY <1>1, <1>2 DEF WindowSound, Pumping
  <1>4. Aware(s, v2, h2)
    BY DEF Aware
  <1> QED BY <1>3, <1>4

LEMMA PumpSound ==
    ASSUME NEW v \in Nat, NEW m \in 0..Cap, NEW h \in BOOLEAN,
           NEW s, Pumping(s, v, m), Aware(s, v, h)
    PROVE  Became(s, Pump(s), v, m, h)
  <1>1. CASE s.active # {} \/ s.queue = <<>>
    <2>1. Pump(s) = s
      BY <1>1 DEF Pump
    <2>2. s.at >= s.at
      BY DEF Pumping
    <2> QED BY <1>1, <2>1, <2>2 DEF Became, WindowSound
  <1>2. CASE ~(s.active # {} \/ s.queue = <<>>)
    <2> DEFINE n == Pump(s)
    <2>1. /\ DOMAIN n = DOMAIN s
          /\ n.status = s.status /\ n.lib = s.lib /\ n.at = s.at /\ n.failed = s.failed
          /\ n.queue = Tail(s.queue) /\ n.active = {Sent(s)}
          /\ n.waiting = (s.waiting /\ Head(s.queue) # Read)
      BY <1>2 DEF Pump, Pumping
    <2> HIDE DEF n
    <2>2. QueueOf(n.queue) /\ Elements(s.queue) = Elements(n.queue) \cup {Head(s.queue)}
      BY <1>2, <2>1, TailElements DEF Pumping
    <2>3. Sent(s).req = Head(s.queue) /\ Sent(s).stage = "sent"
      BY DEF Sent
    <2>4. UnderWay(Sent(s), n.at, v, m)
      BY <2>2, <2>3 DEF UnderWay, Pumping
    <2>5. n.waiting => Read \in Elements(n.queue)
      BY <2>1, <2>2 DEF Pumping
    <2>6. Pumping(n, v, m)
      BY <2>1, <2>2, <2>4, <2>5 DEF Pumping
    <2>7. WindowSound(n, v, m)
      BY <2>1, <2>6 DEF WindowSound
    <2>8. Aware(n, v, h)
      BY <2>1, <2>3 DEF Aware
    <2>9. n.at >= s.at
      BY <2>1 DEF Pumping
    <2> QED BY <2>7, <2>8, <2>9 DEF Became, n
  <1> QED BY <1>1, <1>2

LEMMA BecameThen ==
    ASSUME NEW v \in Nat, NEW m \in 0..Cap, NEW h, NEW s, NEW x, NEW n,
           s.at \in Nat, x.at \in Nat, x.at >= s.at, Became(x, n, v, m, h)
    PROVE  Became(s, n, v, m, h)
  BY DEF Became, WindowSound, Pumping

LEMMA ChangeSound ==
    ASSUME NEW v \in Nat, NEW m \in 0..Cap, NEW h \in BOOLEAN,
           NEW s, WindowSound(s, v, m), Aware(s, v, h), NEW r, Queued(r)
    PROVE  Became(s, Change(s, r), v, m, h)
  <1> DEFINE x == [s EXCEPT !.queue = Append(s.queue, r)]
  <1>1. /\ DOMAIN x = DOMAIN s
        /\ x.status = s.status /\ x.lib = s.lib /\ x.at = s.at /\ x.failed = s.failed
        /\ x.queue = Append(s.queue, r) /\ x.active = s.active /\ x.waiting = s.waiting
    BY DEF WindowSound, Pumping
  <1>2. Change(s, r) = Pump(x)
    BY DEF Change
  <1> HIDE DEF x
  <1>3. QueueOf(x.queue) /\ Elements(x.queue) = Elements(s.queue) \cup {r}
    BY <1>1, AppendElements DEF WindowSound, Pumping
  <1>4. Pumping(x, v, m)
    BY <1>1, <1>3 DEF WindowSound, Pumping
  <1>5. Aware(x, v, h)
    BY <1>1, <1>3 DEF Aware
  <1>6. Became(x, Pump(x), v, m, h)
    BY <1>4, <1>5, PumpSound
  <1> QED BY <1>1, <1>2, <1>6 DEF Became

\* A window that reads the library again is aware without the export.
LEMMA RefreshSound ==
    ASSUME NEW v \in Nat, NEW m \in 0..Cap, NEW h \in BOOLEAN,
           NEW s, WindowSound(s, v, m)
    PROVE  Became(s, Refresh(s), v, m, h)
  <1>1. CASE s.waiting
    <2>1. Refresh(s) = s /\ Read \in Elements(s.queue) /\ s.at >= s.at
      BY <1>1 DEF Refresh, WindowSound, Pumping
    <2> QED BY <2>1 DEF Became, Aware
  <1>2. CASE ~s.waiting
    <2> DEFINE x == [s EXCEPT !.queue = Append(s.queue, Read), !.waiting = TRUE]
    <2>1. /\ DOMAIN x = DOMAIN s
          /\ x.status = s.status /\ x.lib = s.lib /\ x.at = s.at /\ x.failed = s.failed
          /\ x.queue = Append(s.queue, Read) /\ x.active = s.active /\ x.waiting = TRUE
      BY DEF WindowSound, Pumping
    <2>2. Refresh(s) = Pump(x)
      BY <1>2 DEF Refresh
    <2> HIDE DEF x
    <2>3. QueueOf(x.queue) /\ Elements(x.queue) = Elements(s.queue) \cup {Read}
      BY <2>1, AppendElements DEF WindowSound, Pumping
    <2>4. Pumping(x, v, m)
      BY <2>1, <2>3, ReadQueued DEF WindowSound, Pumping
    <2>5. Aware(x, v, h)
      BY <2>1, <2>3 DEF Aware
    <2>6. Became(x, Pump(x), v, m, h)
      BY <2>4, <2>5, PumpSound
    <2> QED BY <2>1, <2>2, <2>6 DEF Became
  <1> QED BY <1>1, <1>2

\* A window that has just been opened, or reloads after its first read failed.
LEMMA OpenedSound ==
    ASSUME NEW v \in Nat, NEW m \in 0..Cap
    PROVE  WindowSound(Opened, v, m)
  <1>1. TypedLibrary(NewLibrary({}), m)
    BY NewLibrarySound DEF SoundLibrary
  <1>2. QueueOf(<<>>) /\ Elements(<<>>) = {}
    BY DEF QueueOf, Elements
  <1> QED BY <1>1, <1>2 DEF Opened, WindowSound, Pumping

LEMMA StatusSound ==
    ASSUME NEW v \in Nat, NEW m \in 0..Cap, NEW s, WindowSound(s, v, m)
    PROVE  LET n == [s EXCEPT !.status = "loading"] IN WindowSound(n, v, m) /\ n.at = s.at
  BY DEF WindowSound, Pumping

\* The request under way ended: the next one is sent.
LEMMA IdleSound ==
    ASSUME NEW v \in Nat, NEW m \in 0..Cap, NEW h \in BOOLEAN,
           NEW s, Pumping(s, v, m), NEW a \in s.active,
           s.at < v \/ s.status = "loading" =>
              s.failed \/ s.status = "failed" \/ h \/ Read \in Elements(s.queue)
    PROVE  Became(s, Idle(s, a), v, m, h)
  <1> DEFINE x == [s EXCEPT !.active = s.active \ {a}]
  <1>1. /\ DOMAIN x = DOMAIN s
        /\ x.status = s.status /\ x.lib = s.lib /\ x.at = s.at /\ x.failed = s.failed
        /\ x.queue = s.queue /\ x.active = s.active \ {a} /\ x.waiting = s.waiting
    BY DEF Pumping
  <1>2. Idle(s, a) = Pump(x)
    BY DEF Idle
  <1> HIDE DEF x
  <1>3. x.active = {}
    BY <1>1 DEF Pumping
  <1>4. Pumping(x, v, m)
    BY <1>1, <1>3 DEF Pumping
  <1>5. Aware(x, v, h)
    BY <1>1, <1>3 DEF Aware
  <1>6. Became(x, Pump(x), v, m, h)
    BY <1>4, <1>5, PumpSound
  <1> QED BY <1>1, <1>2, <1>6 DEF Became

LEMMA ShowSound ==
    ASSUME NEW v \in Nat, NEW m \in 0..Cap, NEW h \in BOOLEAN,
           NEW s, WindowSound(s, v, m), Aware(s, v, h),
           NEW a \in s.active, a.stage = "done", NEW items \in SUBSET Items
    PROVE  Became(s, Show(s, a, items), v, m, h)
  <1> DEFINE lib == [a.lib EXCEPT !.items = items]
             x == [s EXCEPT !.status = "ready", !.failed = FALSE, !.at = a.at, !.lib = lib]
  <1>1. UnderWay(a, s.at, v, m) /\ a.at \in s.at..v /\ TypedLibrary(a.lib, m) /\ s.at \in 0..v
    BY DEF WindowSound, Pumping, UnderWay
  <1>2. TypedLibrary(lib, m)
    <2>1. /\ DOMAIN lib = DOMAIN a.lib /\ lib.items = items /\ lib.tags = a.lib.tags
          /\ lib.filed = a.lib.filed /\ lib.parent = a.lib.parent /\ lib.searches = a.lib.searches
      BY <1>1 DEF TypedLibrary
    <2> HIDE DEF lib
    <2> QED BY <1>1, <2>1 DEF TypedLibrary
  <1>3. Show(s, a, items) = Idle(x, a)
    BY DEF Show
  <1>4. /\ DOMAIN x = DOMAIN s
        /\ x.status = "ready" /\ x.lib = lib /\ x.at = a.at /\ x.failed = FALSE
        /\ x.queue = s.queue /\ x.active = s.active /\ x.waiting = s.waiting
    BY DEF WindowSound, Pumping
  <1> HIDE DEF lib, x
  <1>5. \A b \in x.active : UnderWay(b, x.at, v, m)
    <2>1. \A b \in x.active : b = a
      BY <1>4 DEF WindowSound, Pumping
    <2>2. UnderWay(a, a.at, v, m)
      BY <1>1 DEF UnderWay
    <2> QED BY <1>4, <2>1, <2>2
  <1>6. x.at \in 0..v /\ x.at >= s.at
    BY <1>1, <1>4
  <1>7. Pumping(x, v, m)
    BY <1>2, <1>4, <1>5, <1>6 DEF WindowSound, Pumping
  <1>8. x.at < v \/ x.status = "loading" => h \/ Read \in Elements(x.queue)
    BY <1>4 DEF Aware
  <1>9. Became(x, Idle(x, a), v, m, h)
    BY <1>4, <1>7, <1>8, IdleSound
  <1>10. s.at \in Nat /\ x.at \in Nat
    BY <1>1, <1>6
  <1> QED BY <1>3, <1>6, <1>9, <1>10, BecameThen

LEMMA ReadFailedSound ==
    ASSUME NEW v \in Nat, NEW m \in 0..Cap, NEW h \in BOOLEAN,
           NEW s, WindowSound(s, v, m), NEW a \in s.active
    PROVE  Became(s, ReadFailed(s, a), v, m, h)
  <1> DEFINE ok == s.status = "ready"
             x == [s EXCEPT !.failed = ok, !.status = IF s.status = "ready" THEN s.status ELSE "failed"]
  <1>1. ReadFailed(s, a) = Idle(x, a)
    BY DEF ReadFailed
  <1>2. /\ DOMAIN x = DOMAIN s
        /\ x.status = (IF s.status = "ready" THEN s.status ELSE "failed")
        /\ x.lib = s.lib /\ x.at = s.at /\ x.failed = ok
        /\ x.queue = s.queue /\ x.active = s.active /\ x.waiting = s.waiting
    BY DEF WindowSound, Pumping
  <1> HIDE DEF x
  <1>3. Pumping(x, v, m) /\ (x.failed \/ x.status = "failed")
    BY <1>2 DEF WindowSound, Pumping
  <1>4. Became(x, Idle(x, a), v, m, h)
    BY <1>2, <1>3, IdleSound
  <1> QED BY <1>1, <1>2, <1>4 DEF Became

LEMMA ChangeFailedSound ==
    ASSUME NEW v \in Nat, NEW m \in 0..Cap, NEW h \in BOOLEAN,
           NEW s, WindowSound(s, v, m), NEW a \in s.active
    PROVE  Became(s, ChangeFailed(s, a), v, m, h)
  <1> DEFINE x == Idle(s, a)
  <1>1. Became(s, x, v, m, TRUE)
    BY IdleSound DEF WindowSound
  <1>2. ChangeFailed(s, a) = Refresh(x)
    BY DEF ChangeFailed
  <1> HIDE DEF x
  <1>3. Became(x, Refresh(x), v, m, h)
    BY <1>1, RefreshSound DEF Became
  <1>4. s.at \in Nat /\ x.at \in Nat /\ x.at >= s.at
    BY <1>1 DEF Became, WindowSound, Pumping
  <1> QED BY <1>2, <1>3, <1>4, BecameThen

\* The bucket took or refused the request under way.
LEMMA ServedSound ==
    ASSUME NEW v \in Nat, NEW v2 \in Nat, v <= v2, NEW m \in 0..Cap, NEW m2 \in m..Cap,
           NEW h, NEW s, WindowSound(s, v, m), Aware(s, v, h), NEW a \in s.active,
           NEW b, b.req = a.req, b.stage \in {"done", "refused"},
           b.stage = "done" => b.at = v2 /\ TypedLibrary(b.lib, m2)
    PROVE  Became(s, [s EXCEPT !.active = (s.active \ {a}) \cup {b}], v2, m2, h)
  <1> DEFINE n == [s EXCEPT !.active = (s.active \ {a}) \cup {b}]
  <1>1. /\ DOMAIN n = DOMAIN s
        /\ n.status = s.status /\ n.lib = s.lib /\ n.at = s.at /\ n.failed = s.failed
        /\ n.queue = s.queue /\ n.active = (s.active \ {a}) \cup {b} /\ n.waiting = s.waiting
    BY DEF WindowSound, Pumping
  <1> HIDE DEF n
  <1>2. n.active = {b}
    BY <1>1 DEF WindowSound, Pumping
  <1>3. s.at \in 0..v2 /\ TypedLibrary(s.lib, m2) /\ Queued(a.req)
    BY SoundLater DEF WindowSound, Pumping, UnderWay
  <1>4. UnderWay(b, n.at, v2, m2)
    BY <1>1, <1>3 DEF UnderWay
  <1>5. WindowSound(n, v2, m2)
    BY <1>1, <1>2, <1>3, <1>4 DEF WindowSound, Pumping
  <1>6. Aware(n, v2, h)
    BY <1>2 DEF Aware
  <1> QED BY <1>1, <1>3, <1>5, <1>6 DEF Became, n

-----------------------------------------------------------------------------
(* What users ask for.                                                     *)

LEMMA BegunIsSearch ==
    ASSUME NEW l, NEW s \in Begun(l)
    PROVE  IsSearch(s)
  <1>1. PICK r \in FirstRules(l) : s = [match |-> "all", rules |-> {r}]
    BY DEF Begun
  <1>2. CASE DOMAIN l.parent # {}
    <2>1. r \in [field : {"collection"}, is : {TRUE}, value : Choices(l, "collection")]
      BY <1>1, <1>2 DEF FirstRules
    <2>2. r.is = TRUE
      BY <2>1
    <2> QED BY <1>1, <2>2 DEF IsSearch
  <1>3. CASE DOMAIN l.parent = {}
    <2>1. r.is = TRUE
      BY <1>1, <1>3 DEF FirstRules
    <2> QED BY <1>1, <2>1 DEF IsSearch
  <1> QED BY <1>2, <1>3

LEMMA DoSound ==
    ASSUME NEW m \in 0..Cap, NEW w, NEW what, NEW l, TypedLibrary(l, m), Do(w, what, l)
    PROVE  \/ \E r : Queued(r) /\ InQueue(w, r)
           \/ \E r : Request(r) /\ Call(w, r)
  <1>1. CASE what = "tag"
    <2>1. Tag(w, l)
      BY <1>1 DEF Do
    <2>2. ASSUME NEW keys, NEW add \in SUBSET Tags, NEW remove
          PROVE  Queued(ChangeTags(l, keys, add, remove))
      BY DEF Queued, Request, ChangeTags
    <2>3. CASE \E keys \in (SUBSET l.items) \ {{}}, t \in Tags : InQueue(w, ChangeTags(l, keys, {t}, {}))
      <3>1. PICK keys \in (SUBSET l.items) \ {{}}, t \in Tags : InQueue(w, ChangeTags(l, keys, {t}, {}))
        BY <2>3
      <3>2. {t} \in SUBSET Tags
        OBVIOUS
      <3> QED BY <2>2, <3>1, <3>2
    <2>4. CASE \E i \in l.items : \E t \in l.tags[i] : InQueue(w, ChangeTags(l, {i}, {}, {t}))
      <3>1. PICK i \in l.items : \E t \in l.tags[i] : InQueue(w, ChangeTags(l, {i}, {}, {t}))
        BY <2>4
      <3>2. PICK t \in l.tags[i] : InQueue(w, ChangeTags(l, {i}, {}, {t}))
        BY <3>1
      <3>3. {} \in SUBSET Tags
        OBVIOUS
      <3> QED BY <2>2, <3>2, <3>3
    <2> QED BY <2>1, <2>3, <2>4 DEF Tag
  <1>2. CASE what = "file"
    <2>1. File(w, l)
      BY <1>2 DEF Do
    <2>2. ASSUME NEW keys, NEW add, NEW remove
          PROVE  Queued(ChangeCollections(keys, add, remove))
      BY DEF Queued, Request, ChangeCollections
    <2> QED BY <2>1, <2>2 DEF File
  <1>3. CASE what = "fileInNew"
    <2>1. FileInNew(w, l)
      BY <1>3 DEF Do
    <2>2. ASSUME NEW keys
          PROVE  Request([op |-> "newCollection", parent |-> None, keys |-> keys])
      BY DEF Request
    <2> QED BY <2>1, <2>2 DEF FileInNew
  <1>4. CASE what = "newCollection"
    <2>1. NewCollection(w, l)
      BY <1>4 DEF Do
    <2>2. ASSUME NEW p
          PROVE  Request([op |-> "newCollection", parent |-> p, keys |-> {}])
      BY DEF Request
    <2> QED BY <2>1, <2>2 DEF NewCollection
  <1>5. CASE what = "updateCollection"
    <2>1. UpdateCollection(w, l)
      BY <1>5 DEF Do
    <2>2. ASSUME NEW c PROVE Queued([op |-> "updateCollection", id |-> c])
      BY DEF Queued, Request
    <2> QED BY <2>1, <2>2 DEF UpdateCollection
  <1>6. CASE what = "removeCollection"
    <2>1. RemoveCollection(w, l)
      BY <1>6 DEF Do
    <2>2. ASSUME NEW c PROVE Queued([op |-> "deleteCollection", id |-> c])
      BY DEF Queued, Request
    <2> QED BY <2>1, <2>2 DEF RemoveCollection
  <1>7. CASE what = "smart"
    <2>1. SaveSmartCollection(w, l)
      BY <1>7 DEF Do
    <2>2. PICK s \in Searches \cup Begun(l) :
             \/ Call(w, [op |-> "newSearch", search |-> s])
             \/ \E id \in DOMAIN l.searches : InQueue(w, [op |-> "putSearch", id |-> id, search |-> s])
      BY <2>1 DEF SaveSmartCollection
    <2>3. IsSearch(s)
      BY BegunIsSearch, SearchesAssumption DEF IsSearch
    <2>4. Request([op |-> "newSearch", search |-> s])
      BY <2>3 DEF Request
    <2>5. ASSUME NEW id PROVE Queued([op |-> "putSearch", id |-> id, search |-> s])
      BY <2>3 DEF Queued, Request
    <2> QED BY <2>2, <2>4, <2>5
  <1>8. CASE what = "removeSearch"
    <2>1. RemoveSearch(w, l)
      BY <1>8 DEF Do
    <2>2. ASSUME NEW c PROVE Queued([op |-> "deleteSearch", id |-> c])
      BY DEF Queued, Request
    <2> QED BY <2>1, <2>2 DEF RemoveSearch
  <1>9. CASE what = "editItem"
    <2>1. EditItem(w, l)
      BY <1>9 DEF Do
    <2>2. ASSUME NEW i
          PROVE  Queued(ItemChange(i)) /\ Request([op |-> "describe", keys |-> {i}])
      BY DEF Queued, Request, ItemChange
    <2> QED BY <2>1, <2>2 DEF EditItem
  <1>10. CASE what = "remove"
    <2>1. Remove(w, l) /\ l.items \subseteq Items
      BY <1>10 DEF Do, TypedLibrary
    <2>2. ASSUME NEW i \in Items
          PROVE  Queued([op |-> "delete", keys |-> {i}]) /\ Request([op |-> "send", keys |-> {i}])
      BY DEF Queued, Request
    <2> QED BY <2>1, <2>2 DEF Remove
  <1>11. CASE what \notin {"tag", "file", "fileInNew", "newCollection", "updateCollection",
                           "removeCollection", "smart", "removeSearch", "editItem", "remove"}
    <2>1. Import(w, l)
      BY <1>11 DEF Do
    <2>2. ASSUME NEW i \in Items PROVE Request([op |-> "import", keys |-> {i}])
      BY DEF Request
    <2> QED BY <2>1, <2>2 DEF Import
  <1> QED BY <1>1, <1>2, <1>3, <1>4, <1>5, <1>6, <1>7, <1>8, <1>9, <1>10, <1>11

-----------------------------------------------------------------------------
(* The invariant.                                                          *)

\* Window w still hears of the last write from the export.
Hears(w) == due \/ w \in news \/ w \notin hearing

Pending == UNION {{<<w, r>> : r \in calls[w]} : w \in Windows}

\* Every id made, and every call that may make one, was asked for.
Counted == IsFiniteSet(Pending) /\ made + Cardinality(Pending) <= StartMade + asks

AllSound == \A w \in Windows : WindowSound(win[w], version, made) /\ Aware(win[w], version, Hears(w))

LInv ==
    /\ version \in Nat /\ made \in 0..Cap /\ asks \in 0..MaxAsks
    /\ SoundLibrary(server, made) /\ SaidStands
    /\ DOMAIN win = Windows /\ DOMAIN calls = Windows
    /\ AllSound
    /\ \A w \in Windows : \A r \in calls[w] : Request(r)
    /\ Counted

\* No window shows an older library than it did.
Forward == \A w \in Windows : win'[w].at >= win[w].at

LEMMA CallCounted ==
    ASSUME LInv, NEW w \in Windows, NEW r, asks < MaxAsks, asks' = asks + 1, made' = made,
           calls' = [calls EXCEPT ![w] = @ \cup {r}]
    PROVE  Counted'
  <1>1. Pending' = Pending \cup {<<w, r>>}
    BY DEF LInv, Pending
  <1>2. IsFiniteSet(Pending) /\ Cardinality(Pending) \in Nat
    BY FS_CardinalityType DEF LInv, Counted
  <1>3. /\ IsFiniteSet(Pending \cup {<<w, r>>})
        /\ Cardinality(Pending \cup {<<w, r>>}) \in {Cardinality(Pending), Cardinality(Pending) + 1}
    BY <1>2, FS_AddElement
  <1> QED BY <1>1, <1>2, <1>3, LibraryAssumption DEF LInv, Counted

LEMMA ServedCounted ==
    ASSUME LInv, NEW w \in Windows, NEW r \in calls[w]
    PROVE  /\ made + 1 <= Cap
           /\ asks' = asks /\ made' \in {made, made + 1} /\ calls' = [calls EXCEPT ![w] = @ \ {r}] => Counted'
  <1>1. IsFiniteSet(Pending) /\ Cardinality(Pending) \in Nat /\ <<w, r>> \in Pending
    BY FS_CardinalityType DEF LInv, Counted, Pending
  <1>2. Cardinality(Pending) >= 1
    BY <1>1, FS_EmptySet
  <1>3. made + 1 <= Cap
    BY <1>1, <1>2, LibraryAssumption, FilingAssumption DEF LInv, Counted
  <1>4. ASSUME asks' = asks, made' \in {made, made + 1}, calls' = [calls EXCEPT ![w] = @ \ {r}]
        PROVE  Counted'
    <2>1. Pending' = Pending \ {<<w, r>>}
      BY <1>4 DEF LInv, Pending
    <2>2. /\ IsFiniteSet(Pending \ {<<w, r>>})
          /\ Cardinality(Pending \ {<<w, r>>}) = Cardinality(Pending) - 1
      BY <1>1, FS_RemoveElement
    <2> QED BY <1>1, <1>4, <2>1, <2>2, LibraryAssumption DEF LInv, Counted
  <1> QED BY <1>3, <1>4

\* The windows after window w became n, as long as each of the others still hears what it heard.
LEMMA WindowsStep ==
    ASSUME LInv, NEW w \in Windows, NEW n,
           version' \in Nat, version <= version', made' \in made..Cap,
           version' = version \/ due',
           \A x \in Windows \ {w} : Hears(x) => Hears(x)',
           win' = [win EXCEPT ![w] = n], Became(win[w], n, version', made', Hears(w)')
    PROVE  AllSound' /\ Forward /\ DOMAIN win' = Windows
  <1>1. /\ DOMAIN win' = Windows /\ win'[w] = n
        /\ \A x \in Windows \ {w} : win'[x] = win[x]
    BY DEF LInv
  <1>2. /\ \A x \in Windows : Hears(x) \in BOOLEAN /\ Hears(x)' \in BOOLEAN
        /\ \A x \in Windows : due' => Hears(x)'
    BY DEF Hears
  <1>3. ASSUME NEW x \in Windows \ {w}
        PROVE  WindowSound(win[x], version', made') /\ Aware(win[x], version', Hears(x)')
    <2>1. WindowSound(win[x], version, made) /\ Aware(win[x], version, Hears(x))
      BY DEF LInv, AllSound
    <2>2. (Hears(x) => Hears(x)') /\ (version' = version \/ Hears(x)')
      BY <1>2
    <2> QED BY <1>2, <2>1, <2>2, WindowLater DEF LInv
  <1>4. \A x \in Windows : win[x].at \in Nat
    BY DEF LInv, AllSound, WindowSound, Pumping
  <1>5. AllSound'
    BY <1>1, <1>3 DEF AllSound, Became
  <1>6. Forward
    BY <1>1, <1>4 DEF Forward, Became
  <1> QED BY <1>1, <1>5, <1>6

\* The same when no window changes.
LEMMA WindowsStay ==
    ASSUME LInv, UNCHANGED <<version, made, win>>, \A x \in Windows : Hears(x) => Hears(x)'
    PROVE  AllSound' /\ Forward
  <1>1. \A x \in Windows : Hears(x) \in BOOLEAN /\ Hears(x)' \in BOOLEAN
    BY DEF Hears
  <1>2. ASSUME NEW x \in Windows
        PROVE  WindowSound(win[x], version, made) /\ Aware(win[x], version, Hears(x)')
    <2>1. WindowSound(win[x], version, made) /\ Aware(win[x], version, Hears(x))
      BY DEF LInv, AllSound
    <2>2. made \in made..Cap
      BY FilingAssumption DEF LInv
    <2> QED BY <1>1, <2>1, <2>2, WindowLater DEF LInv
  <1>3. \A x \in Windows : win[x].at \in Nat
    BY DEF LInv, AllSound, WindowSound, Pumping
  <1> QED BY <1>2, <1>3 DEF AllSound, Forward

\* What the bucket takes of a window.
LEMMA WriteSound ==
    ASSUME LInv, NEW r, Request(r), Served(server, r), Makes(r) => made + 1 <= Cap, Write(r)
    PROVE  /\ SoundLibrary(server', made') /\ SaidStands'
           /\ version' = version + 1 /\ due' = TRUE
           /\ made' \in made..Cap /\ made' \in {made, made + 1} /\ (~Makes(r) => made' = made)
  <1>1. /\ SoundLibrary(Outcome(server, r), IF Makes(r) THEN made + 1 ELSE made)
        /\ Carries(Outcome(server, r), Told(r))
    BY OutcomeSound DEF LInv
  <1>2. SoundLibrary(server', made')
    BY <1>1 DEF Write
  <1>3. DOMAIN Told(r) = Items
    BY DEF Told
  <1>4. SaidStands'
    BY <1>1, <1>3 DEF Write, SaidStands, Carries
  <1> QED BY <1>2, <1>4, FilingAssumption DEF Write, LInv

\* The bucket and the calls as they were.
Quiet ==
    UNCHANGED <<server, version, made, said, calls, asks>>

LEMMA QuietRest ==
    ASSUME LInv, Quiet, AllSound', DOMAIN win' = Windows
    PROVE  LInv'
  <1>1. SaidStands' /\ Counted'
    BY DEF LInv, Quiet, SaidStands, Counted, Pending
  <1> QED BY <1>1 DEF LInv, Quiet

LEMMA QuietWindow ==
    ASSUME LInv, Quiet, NEW w \in Windows, NEW n,
           \A x \in Windows \ {w} : Hears(x) => Hears(x)',
           win' = [win EXCEPT ![w] = n], Became(win[w], n, version, made, Hears(w)')
    PROVE  LInv' /\ Forward
  <1>1. /\ version' = version /\ version' \in Nat /\ version <= version'
        /\ made' = made /\ made' \in made..Cap
    BY FilingAssumption DEF LInv, Quiet
  <1>2. AllSound' /\ Forward /\ DOMAIN win' = Windows
    BY <1>1, WindowsStep
  <1> QED BY <1>2, QuietRest

LEMMA AskSound ==
    ASSUME LInv, NEW w \in Windows, NEW doings, Ask(w, doings)
    PROVE  LInv' /\ Forward
  <1>1. /\ asks < MaxAsks /\ asks' = asks + 1
        /\ UNCHANGED <<server, version, made, due, news, hearing, said>>
    BY DEF Ask
  <1>2. PICK what \in doings : Do(w, what, win[w].lib)
    BY DEF Ask
  <1>3. WindowSound(win[w], version, made) /\ Aware(win[w], version, Hears(w)) /\ Hears(w) \in BOOLEAN
    BY DEF LInv, AllSound, Hears
  <1>4. \/ \E r : Queued(r) /\ InQueue(w, r)
        \/ \E r : Request(r) /\ Call(w, r)
    BY <1>2, <1>3, DoSound DEF LInv, WindowSound, Pumping
  <1>5. \A x \in Windows : Hears(x)' = Hears(x)
    BY <1>1 DEF Hears
  <1>6. SaidStands' /\ asks' \in 0..MaxAsks /\ SoundLibrary(server', made')
    BY <1>1, LibraryAssumption DEF LInv, SaidStands
  <1>7. CASE \E r : Queued(r) /\ InQueue(w, r)
    <2>1. PICK r : Queued(r) /\ InQueue(w, r)
      BY <1>7
    <2>2. win' = [win EXCEPT ![w] = Change(win[w], r)] /\ calls' = calls
      BY <2>1 DEF InQueue
    <2>3. Became(win[w], Change(win[w], r), version, made, Hears(w))
      BY <1>3, <2>1, ChangeSound DEF LInv
    <2>4. version' = version /\ made' = made /\ made \in made..Cap /\ version \in Nat /\ version <= version
      BY <1>1, FilingAssumption DEF LInv
    <2>5. AllSound' /\ Forward /\ DOMAIN win' = Windows
      BY <1>5, <2>2, <2>3, <2>4, WindowsStep
    <2>6. Counted'
      BY <1>1, <2>2, FS_CardinalityType, LibraryAssumption DEF LInv, Counted, Pending
    <2> QED BY <1>1, <1>6, <2>2, <2>5, <2>6 DEF LInv
  <1>8. CASE \E r : Request(r) /\ Call(w, r)
    <2>1. PICK r : Request(r) /\ Call(w, r)
      BY <1>8
    <2>2. calls' = [calls EXCEPT ![w] = @ \cup {r}] /\ win' = win
      BY <2>1 DEF Call
    <2>3. AllSound' /\ Forward
      BY <1>1, <1>5, <2>2, WindowsStay
    <2>4. Counted'
      BY <1>1, <2>2, CallCounted
    <2>5. DOMAIN calls' = Windows /\ \A x \in Windows : \A y \in calls'[x] : Request(y)
      BY <2>1, <2>2 DEF LInv
    <2> QED BY <1>1, <1>6, <2>2, <2>3, <2>4, <2>5 DEF LInv
  <1> QED BY <1>4, <1>7, <1>8

LEMMA RefreshedSound ==
    ASSUME LInv, Quiet, NEW w \in Windows, \A x \in Windows \ {w} : Hears(x) => Hears(x)',
           win' = [win EXCEPT ![w] = Refresh(@)]
    PROVE  LInv' /\ Forward
  <1>1. Hears(w)' \in BOOLEAN /\ WindowSound(win[w], version, made)
    BY DEF Hears, LInv, AllSound
  <1>2. Became(win[w], Refresh(win[w]), version, made, Hears(w)')
    BY <1>1, RefreshSound DEF LInv
  <1> QED BY <1>2, QuietWindow

LEMMA FocusSound ==
    ASSUME LInv, NEW w \in Windows, Focus(w)
    PROVE  LInv' /\ Forward
  <1>1. \A x \in Windows : Hears(x)' = Hears(x)
    BY DEF Focus, Hears
  <1>2. Quiet /\ win' = [win EXCEPT ![w] = Refresh(@)]
    BY DEF Focus, Quiet
  <1> QED BY <1>1, <1>2, RefreshedSound

LEMMA HearSound ==
    ASSUME LInv, NEW w \in Windows, Hear(w)
    PROVE  LInv' /\ Forward
  <1>1. \A x \in Windows \ {w} : Hears(x)' = Hears(x)
    BY DEF Hear, Hears
  <1>2. Quiet /\ win' = [win EXCEPT ![w] = Refresh(@)]
    BY DEF Hear, Quiet
  <1> QED BY <1>1, <1>2, RefreshedSound

LEMMA ReloadSound ==
    ASSUME LInv, NEW w \in Windows, Reload(w)
    PROVE  LInv' /\ Forward
  <1> DEFINE s == [win[w] EXCEPT !.status = "loading"]
  <1>1. \A x \in Windows : Hears(x)' = Hears(x)
    BY DEF Reload, Hears
  <1>2. Quiet /\ win' = [win EXCEPT ![w] = Refresh(s)]
    BY DEF Reload, Quiet
  <1>3. /\ WindowSound(s, version, made) /\ s.at = win[w].at /\ Hears(w)' \in BOOLEAN
        /\ win[w].at \in Nat
    BY StatusSound DEF LInv, AllSound, WindowSound, Pumping, Hears
  <1> HIDE DEF s
  <1>4. Became(s, Refresh(s), version, made, Hears(w)')
    BY <1>3, RefreshSound DEF LInv
  <1>5. Became(win[w], Refresh(s), version, made, Hears(w)')
    BY <1>3, <1>4 DEF Became
  <1> QED BY <1>1, <1>2, <1>5, QuietWindow

LEMMA AnswerSound ==
    ASSUME LInv, NEW w \in Windows, Answer(w)
    PROVE  LInv' /\ Forward
  <1>1. PICK a \in win[w].active :
           \/ a.stage = "done" /\ win' = [win EXCEPT ![w] = Show(@, a, server.items)]
           \/ a.stage = "refused" /\ win' = [win EXCEPT ![w] = ChangeFailed(@, a)]
    BY DEF Answer
  <1>2. Quiet /\ \A x \in Windows : Hears(x)' = Hears(x)
    BY DEF Answer, Quiet, Hears
  <1>3. /\ WindowSound(win[w], version, made) /\ Aware(win[w], version, Hears(w))
        /\ Hears(w) \in BOOLEAN /\ server.items \in SUBSET Items
    BY DEF LInv, AllSound, Hears, SoundLibrary, TypedLibrary
  <1>4. CASE a.stage = "done" /\ win' = [win EXCEPT ![w] = Show(@, a, server.items)]
    <2>1. Became(win[w], Show(win[w], a, server.items), version, made, Hears(w))
      BY <1>3, <1>4, ShowSound DEF LInv
    <2> QED BY <1>2, <1>4, <2>1, QuietWindow
  <1>5. CASE a.stage = "refused" /\ win' = [win EXCEPT ![w] = ChangeFailed(@, a)]
    <2>1. Became(win[w], ChangeFailed(win[w], a), version, made, Hears(w))
      BY <1>3, ChangeFailedSound DEF LInv
    <2> QED BY <1>2, <1>5, <2>1, QuietWindow
  <1> QED BY <1>1, <1>4, <1>5

LEMMA LoseSound ==
    ASSUME LInv, NEW w \in Windows, Lose(w)
    PROVE  LInv' /\ Forward
  <1>1. PICK a \in win[w].active :
           win' = [win EXCEPT ![w] = IF a.req = Read THEN ReadFailed(@, a) ELSE ChangeFailed(@, a)]
    BY DEF Lose
  <1>2. Quiet /\ \A x \in Windows : Hears(x)' = Hears(x)
    BY DEF Lose, Quiet, Hears
  <1>3. WindowSound(win[w], version, made) /\ Hears(w) \in BOOLEAN
    BY DEF LInv, AllSound, Hears
  <1>4. CASE a.req = Read
    <2>1. Became(win[w], ReadFailed(win[w], a), version, made, Hears(w))
      BY <1>3, ReadFailedSound DEF LInv
    <2> QED BY <1>1, <1>2, <1>4, <2>1, QuietWindow
  <1>5. CASE a.req # Read
    <2>1. Became(win[w], ChangeFailed(win[w], a), version, made, Hears(w))
      BY <1>3, ChangeFailedSound DEF LInv
    <2> QED BY <1>1, <1>2, <1>5, <2>1, QuietWindow
  <1> QED BY <1>4, <1>5

\* Once the export has followed the writes, every window that hears has its state to hear.
LEMMA StreamSound ==
    ASSUME LInv, UNCHANGED <<server, version, made, win, calls, said, asks>>,
           \A x \in Windows : Hears(x) => Hears(x)'
    PROVE  LInv' /\ Forward
  <1>1. AllSound' /\ Forward
    BY WindowsStay
  <1>2. DOMAIN win' = Windows
    BY DEF LInv
  <1>3. Quiet
    BY DEF Quiet
  <1> QED BY <1>1, <1>2, <1>3, QuietRest

LEMMA ExportSound ==
    ASSUME LInv, Export
    PROVE  LInv' /\ Forward
  <1>1. \A x \in Windows : Hears(x) => Hears(x)'
    BY DEF Export, Hears
  <1>2. UNCHANGED <<server, version, made, win, calls, said, asks>>
    BY DEF Export
  <1> QED BY <1>1, <1>2, StreamSound

LEMMA DropSound ==
    ASSUME LInv, NEW w \in Windows, Drop(w)
    PROVE  LInv' /\ Forward
  <1>1. \A x \in Windows : Hears(x) => Hears(x)'
    BY DEF Drop, Hears
  <1>2. UNCHANGED <<server, version, made, win, calls, said, asks>>
    BY DEF Drop
  <1> QED BY <1>1, <1>2, StreamSound

LEMMA ConnectSound ==
    ASSUME LInv, NEW w \in Windows, Connect(w)
    PROVE  LInv' /\ Forward
  <1>1. \A x \in Windows : Hears(x) => Hears(x)'
    BY DEF Connect, Hears
  <1>2. UNCHANGED <<server, version, made, win, calls, said, asks>>
    BY DEF Connect
  <1> QED BY <1>1, <1>2, StreamSound

\* A request the bucket takes or refuses.
LEMMA TakenSound ==
    ASSUME LInv, NEW r, Request(r), Makes(r) => made + 1 <= Cap,
           \/ Served(server, r) /\ Write(r)
           \/ UNCHANGED <<server, version, made, said, due>>
    PROVE  /\ SoundLibrary(server', made') /\ SaidStands'
           /\ version' \in Nat /\ version <= version' /\ (version' = version \/ due')
           /\ made' \in made..Cap /\ made' \in {made, made + 1} /\ (~Makes(r) => made' = made)
           /\ due => due'
  <1>1. CASE Served(server, r) /\ Write(r)
    <2>1. /\ SoundLibrary(server', made') /\ SaidStands'
          /\ version' = version + 1 /\ due' = TRUE
          /\ made' \in made..Cap /\ made' \in {made, made + 1} /\ (~Makes(r) => made' = made)
      BY <1>1, WriteSound
    <2>2. version \in Nat
      BY DEF LInv
    <2> QED BY <2>1, <2>2
  <1>2. CASE UNCHANGED <<server, version, made, said, due>>
    <2>1. SaidStands'
      BY <1>2 DEF LInv, SaidStands
    <2> QED BY <1>2, <2>1, FilingAssumption DEF LInv
  <1> QED BY <1>1, <1>2

LEMMA ServeSound ==
    ASSUME LInv, NEW w \in Windows, Serve(w)
    PROVE  LInv' /\ Forward
  <1>1. PICK a \in win[w].active :
           LET ok == Served(server, a.req) IN
           /\ a.stage = "sent"
           /\ IF a.req # Read /\ ok THEN Write(a.req) ELSE UNCHANGED <<server, version, made, said, due>>
           /\ win' = [win EXCEPT ![w].active = (@ \ {a}) \cup
                        {IF ok THEN [req |-> a.req, stage |-> "done", at |-> version', lib |-> server']
                         ELSE [req |-> a.req, stage |-> "refused"]}]
           /\ UNCHANGED <<news, hearing, calls, asks, faults, focused>>
    BY DEF Serve
  <1> DEFINE b == IF Served(server, a.req)
                  THEN [req |-> a.req, stage |-> "done", at |-> version', lib |-> server']
                  ELSE [req |-> a.req, stage |-> "refused"]
             n == [win[w] EXCEPT !.active = (win[w].active \ {a}) \cup {b}]
  <1>2. /\ WindowSound(win[w], version, made) /\ Aware(win[w], version, Hears(w))
        /\ Hears(w) \in BOOLEAN /\ Queued(a.req)
    BY DEF LInv, AllSound, Hears, WindowSound, Pumping, UnderWay
  <1>3. Request(a.req) /\ ~Makes(a.req)
    BY <1>2 DEF Queued, Makes
  <1>4. /\ SoundLibrary(server', made') /\ SaidStands'
        /\ version' \in Nat /\ version <= version' /\ (version' = version \/ due')
        /\ made' \in made..Cap /\ made' = made
        /\ due => due'
    BY <1>1, <1>3, TakenSound
  <1>5. /\ b.req = a.req /\ b.stage \in {"done", "refused"}
        /\ b.stage = "done" => b.at = version' /\ b.lib = server'
    OBVIOUS
  <1>6. win' = [win EXCEPT ![w] = n]
    BY <1>1
  <1> HIDE DEF b
  <1>7. Became(win[w], n, version', made', Hears(w)')
    <2>1. WindowSound(win[w], version', made') /\ Aware(win[w], version', Hears(w)')
      <3>1. Hears(w)' \in BOOLEAN /\ (Hears(w) => Hears(w)') /\ (version' = version \/ Hears(w)')
        BY <1>1, <1>4 DEF Hears
      <3> QED BY <1>2, <1>4, <3>1, WindowLater DEF LInv
    <2>2. b.stage = "done" => b.at = version' /\ TypedLibrary(b.lib, made')
      BY <1>4, <1>5 DEF SoundLibrary
    <2>3. made' \in 0..Cap /\ made' \in made'..Cap /\ version' <= version'
      BY <1>4, FilingAssumption DEF LInv
    <2> QED BY <1>4, <1>5, <2>1, <2>2, <2>3, ServedSound
  <1> HIDE DEF n
  <1>8. \A x \in Windows \ {w} : Hears(x) => Hears(x)'
    BY <1>1, <1>4 DEF Hears
  <1>9. AllSound' /\ Forward /\ DOMAIN win' = Windows
    BY <1>4, <1>6, <1>7, <1>8, WindowsStep
  <1>10. Counted' /\ UNCHANGED <<calls, asks>> /\ made' = made
    BY <1>1, <1>4 DEF LInv, Counted, Pending
  <1> QED BY <1>4, <1>9, <1>10 DEF LInv

LEMMA ServeCallSound ==
    ASSUME LInv, NEW w \in Windows, ServeCall(w)
    PROVE  LInv' /\ Forward
  <1>1. PICK r \in calls[w] :
           LET files == r.op = "newCollection" /\ r.keys # {} IN
           /\ IF Served(server, r) THEN Write(r) ELSE UNCHANGED <<server, version, made, said, due>>
           /\ calls' = [calls EXCEPT ![w] = @ \ {r}]
           /\ win' = [win EXCEPT ![w] = IF files THEN Change(@, ChangeCollections(r.keys, {made + 1}, {}))
                                        ELSE Refresh(@)]
           /\ UNCHANGED <<news, hearing, asks, faults, focused>>
    BY DEF ServeCall
  <1> DEFINE c == ChangeCollections(r.keys, {made + 1}, {})
             n == IF r.op = "newCollection" /\ r.keys # {} THEN Change(win[w], c) ELSE Refresh(win[w])
  <1>2. Request(r) /\ made + 1 <= Cap
    BY ServedCounted DEF LInv
  <1>3. /\ SoundLibrary(server', made') /\ SaidStands'
        /\ version' \in Nat /\ version <= version' /\ (version' = version \/ due')
        /\ made' \in made..Cap /\ made' \in {made, made + 1}
        /\ due => due'
    BY <1>1, <1>2, TakenSound
  <1>4. win' = [win EXCEPT ![w] = n]
    BY <1>1
  <1>5. Became(win[w], n, version', made', Hears(w)')
    <2>1. /\ WindowSound(win[w], version', made') /\ Aware(win[w], version', Hears(w)')
          /\ Hears(w)' \in BOOLEAN
      <3>1. /\ WindowSound(win[w], version, made) /\ Aware(win[w], version, Hears(w))
            /\ Hears(w) \in BOOLEAN
        BY DEF LInv, AllSound, Hears
      <3>2. Hears(w)' \in BOOLEAN /\ (Hears(w) => Hears(w)') /\ (version' = version \/ Hears(w)')
        BY <1>1, <1>3 DEF Hears
      <3> QED BY <1>3, <3>1, <3>2, WindowLater DEF LInv
    <2>2. made' \in 0..Cap
      BY <1>3, FilingAssumption DEF LInv
    <2>3. Queued(c)
      BY DEF Queued, Request, ChangeCollections
    <2> HIDE DEF c
    <2>4. Became(win[w], Change(win[w], c), version', made', Hears(w)')
      BY <1>3, <2>1, <2>2, <2>3, ChangeSound
    <2>5. Became(win[w], Refresh(win[w]), version', made', Hears(w)')
      BY <1>3, <2>1, <2>2, RefreshSound
    <2> QED BY <2>4, <2>5
  <1> HIDE DEF n
  <1>6. \A x \in Windows \ {w} : Hears(x) => Hears(x)'
    BY <1>1, <1>3 DEF Hears
  <1>7. AllSound' /\ Forward /\ DOMAIN win' = Windows
    BY <1>3, <1>4, <1>5, <1>6, WindowsStep
  <1>8. Counted' /\ asks' = asks
    BY <1>1, <1>3, ServedCounted
  <1>9. DOMAIN calls' = Windows /\ \A x \in Windows : \A y \in calls'[x] : Request(y)
    BY <1>1 DEF LInv
  <1>10. made' \in 0..Cap
    BY <1>3, FilingAssumption DEF LInv
  <1> QED BY <1>3, <1>7, <1>8, <1>9, <1>10 DEF LInv

LEMMA InitSound ==
    ASSUME NEW CONSTANT start, SoundLibrary(start, StartMade), NEW CONSTANT open \in BOOLEAN,
           LibraryInit(start, open)
    PROVE  LInv
  <1>1. StartMade \in 0..Cap /\ MaxAsks \in Nat
    BY LibraryAssumption, FilingAssumption
  <1>2. SaidStands
    BY DEF LibraryInit, SaidStands
  <1>3. Counted
    <2>1. Pending = {}
      BY DEF LibraryInit, Pending
    <2> QED BY <1>1, <2>1, FS_EmptySet DEF LibraryInit, Counted
  <1>4. ASSUME NEW w \in Windows
        PROVE  WindowSound(win[w], 0, StartMade) /\ Aware(win[w], 0, Hears(w))
    <2>1. WindowSound(Opened, 0, StartMade) /\ Opened.at = 0
      BY <1>1, OpenedSound DEF Opened
    <2>2. CASE open
      <3> DEFINE n == [Opened EXCEPT !.status = "ready", !.lib = start]
      <3>1. win[w] = n
        BY <2>2 DEF LibraryInit
      <3>2. /\ DOMAIN n = DOMAIN Opened /\ n.status = "ready" /\ n.lib = start /\ n.at = 0
            /\ n.failed = FALSE /\ n.waiting = FALSE /\ n.queue = Opened.queue /\ n.active = {}
            /\ Opened.queue = <<>>
        BY DEF Opened
      <3> HIDE DEF n
      <3>3. WindowSound(n, 0, StartMade)
        BY <2>1, <3>2 DEF WindowSound, Pumping, SoundLibrary
      <3>4. Aware(n, 0, Hears(w))
        BY <3>2 DEF Aware
      <3> QED BY <3>1, <3>3, <3>4
    <2>3. CASE ~open
      <3>1. win[w] = Refresh(Opened)
        BY <2>3 DEF LibraryInit
      <3>2. Hears(w) \in BOOLEAN
        BY DEF Hears
      <3>3. Became(Opened, Refresh(Opened), 0, StartMade, Hears(w))
        BY <1>1, <2>1, <3>2, RefreshSound
      <3> QED BY <3>1, <3>3 DEF Became
    <2> QED BY <2>2, <2>3
  <1>5. AllSound
    BY <1>4 DEF AllSound, LibraryInit
  <1> QED BY <1>1, <1>2, <1>3, <1>5 DEF LInv, LibraryInit

LEMMA StepSound ==
    ASSUME LInv, NEW CONSTANT doings, [LibraryNext(doings)]_libraryVars
    PROVE  LInv' /\ Forward
  <1>1. CASE LibraryNext(doings)
    <2>1. CASE Export
      BY <2>1, ExportSound
    <2>2. ASSUME NEW w \in Windows,
                 \/ Ask(w, doings) \/ Focus(w) \/ Reload(w) \/ Serve(w) \/ Answer(w)
                 \/ ServeCall(w) \/ Lose(w) \/ Hear(w) \/ Drop(w) \/ Connect(w)
          PROVE  LInv' /\ Forward
      <3>1. CASE Ask(w, doings) BY <3>1, AskSound
      <3>2. CASE Focus(w) BY <3>2, FocusSound
      <3>3. CASE Reload(w) BY <3>3, ReloadSound
      <3>4. CASE Serve(w) BY <3>4, ServeSound
      <3>5. CASE Answer(w) BY <3>5, AnswerSound
      <3>6. CASE ServeCall(w) BY <3>6, ServeCallSound
      <3>7. CASE Lose(w) BY <3>7, LoseSound
      <3>8. CASE Hear(w) BY <3>8, HearSound
      <3>9. CASE Drop(w) BY <3>9, DropSound
      <3>10. CASE Connect(w) BY <3>10, ConnectSound
      <3> QED BY <2>2, <3>1, <3>2, <3>3, <3>4, <3>5, <3>6, <3>7, <3>8, <3>9, <3>10
    <2> QED BY <1>1, <2>1, <2>2 DEF LibraryNext
  <1>2. CASE UNCHANGED libraryVars
    <2>1. UNCHANGED <<server, version, made, win, calls, said, asks, due, news, hearing>>
      BY <1>2 DEF libraryVars
    <2>2. \A x \in Windows : Hears(x) => Hears(x)'
      BY <2>1 DEF Hears
    <2> QED BY <2>1, <2>2, StreamSound
  <1> QED BY <1>1, <1>2

-----------------------------------------------------------------------------
(* Theorems: of windows over a bucket with any sound library, whatever is  *)
(* asked in them.                                                          *)

LibrarySpec(start, open, doings) == LibraryInit(start, open) /\ [][LibraryNext(doings)]_libraryVars

\* Only a deleted collection takes collections away.
LEMMA CollectionsStay ==
    ASSUME NEW m \in 0..Cap, SoundLibrary(server, m),
           NEW r, Request(r), Served(server, r), r.op # "deleteCollection"
    PROVE  DOMAIN server.parent \subseteq DOMAIN Outcome(server, r).parent
  <1>1. /\ DOMAIN server = {"items", "tags", "filed", "parent", "searches"}
    BY DEF SoundLibrary, TypedLibrary
  <1>2. CASE r.op \in {"tags", "collections"}
    <2>1. \A keys, t, c : FileMany(server, keys, t, c).parent = server.parent
      BY <1>1 DEF FileMany
    <2> QED BY <1>2, <2>1 DEF Outcome
  <1>3. CASE r.op \in {"delete", "send"}
    <2>1. \A k : RemoveItem(server, k).parent = server.parent
      BY <1>1 DEF RemoveItem
    <2> QED BY <1>3, <2>1 DEF Outcome
  <1>4. CASE r.op = "newCollection"
    <2>1. DOMAIN AddCollection(server, made + 1, r.parent).parent = DOMAIN server.parent \cup {made + 1}
      BY <1>1 DEF AddCollection
    <2> QED BY <1>4, <2>1 DEF Outcome
  <1>5. CASE r.op \in {"newSearch", "putSearch", "deleteSearch"}
    <2>1. /\ \A id, x : PutSearch(server, id, x).parent = server.parent
          /\ \A id : DeleteSearch(server, id).parent = server.parent
      BY <1>1 DEF PutSearch, DeleteSearch
    <2> QED BY <1>5, <2>1 DEF Outcome
  <1>6. CASE r.op \notin {"tags", "collections", "delete", "send", "newCollection", "newSearch",
                          "putSearch", "deleteSearch"}
    <2>1. \A items : [server EXCEPT !.items = items].parent = server.parent
      BY <1>1
    <2>2. Outcome(server, r) = server \/ \E items : Outcome(server, r) = [server EXCEPT !.items = items]
      BY <1>6 DEF Outcome
    <2> QED BY <2>1, <2>2
  <1> QED BY <1>2, <1>3, <1>4, <1>5, <1>6

\* What a step makes of the library is nothing, or what a request makes of it.
LEMMA StepWrites ==
    ASSUME LInv, NEW CONSTANT doings, [LibraryNext(doings)]_libraryVars, server' # server
    PROVE  \E r : Request(r) /\ Served(server, r) /\ server' = Outcome(server, r)
  <1>1. LibraryNext(doings) /\ ~Export
    BY DEF libraryVars, Export
  <1>2. PICK w \in Windows : Serve(w) \/ ServeCall(w)
    BY <1>1 DEF LibraryNext, Ask, Focus, Reload, Answer, Lose, Hear, Drop, Connect
  <1>3. CASE Serve(w)
    <2>1. PICK a \in win[w].active : Served(server, a.req) /\ Write(a.req)
      BY <1>3 DEF Serve
    <2>2. Request(a.req)
      BY DEF LInv, AllSound, WindowSound, Pumping, UnderWay, Queued
    <2> QED BY <2>1, <2>2 DEF Write
  <1>4. CASE ServeCall(w)
    <2>1. PICK r \in calls[w] : Served(server, r) /\ Write(r)
      BY <1>4 DEF ServeCall
    <2>2. Request(r)
      BY DEF LInv
    <2> QED BY <2>1, <2>2 DEF Write
  <1> QED BY <1>2, <1>3, <1>4

\* Whatever windows ask of the bucket from libraries that are stale, and whichever of their requests
\* and answers are lost: nothing names a collection that is gone, an item carries the tags and lies in
\* the collections its user was last told it does, and a collection's view holds what lies in every
\* collection below it.
THEOREM FilingSoundHolds ==
    ASSUME NEW CONSTANT start, SoundLibrary(start, StartMade), NEW CONSTANT open \in BOOLEAN,
           NEW CONSTANT doings
    PROVE  LibrarySpec(start, open, doings) => []FilingSound
  <1>1. LibraryInit(start, open) => LInv
    BY InitSound
  <1>2. LInv /\ [LibraryNext(doings)]_libraryVars => LInv'
    BY StepSound
  <1>3. LInv => FilingSound
    <2> SUFFICES ASSUME LInv PROVE FilingSound
      OBVIOUS
    <2>1. LibraryTypeOK
      <3>1. \A w \in Windows :
               /\ TypedLibrary(win[w].lib, made)
               /\ win[w].status \in {"loading", "ready", "failed"} /\ win[w].at \in 0..version
               /\ win[w].queue # <<>> => win[w].active # {}
        BY DEF LInv, AllSound, WindowSound, Pumping
      <3>2. TypedLibrary(server, made)
        BY DEF LInv, SoundLibrary
      <3>3. ASSUME NEW l \in {server} \cup {win[w].lib : w \in Windows}
            PROVE  /\ l.items \subseteq Items
                   /\ DOMAIN l.parent \subseteq 1..made /\ DOMAIN l.searches \subseteq 1..made
                   /\ \A i \in Items : l.tags[i] \subseteq Tags /\ l.filed[i] \subseteq Ids
                   /\ \A s \in DOMAIN l.searches : l.searches[s].rules # {}
        <4>1. TypedLibrary(l, made)
          BY <3>1, <3>2
        <4> QED BY <4>1 DEF TypedLibrary, IsSearch
      <3> QED BY <3>1, <3>3 DEF LibraryTypeOK
    <2>2. NothingDangles
      BY DEF LInv, SoundLibrary, Rests, NothingDangles
    <2>3. LastWordStands
      BY DEF LInv, SoundLibrary, TypedLibrary, SaidStands, LastWordStands
    <2>4. SubtreeIsDescent
      BY ViewIsDescent DEF LInv
    <2> QED BY <2>1, <2>2, <2>3, <2>4 DEF FilingSound
  <1> QED BY <1>1, <1>2, <1>3, PTL DEF LibrarySpec

\* A window that shows an older library than the bucket holds says so, reads, or will hear of it.
THEOREM StaleIsToldHolds ==
    ASSUME NEW CONSTANT start, SoundLibrary(start, StartMade), NEW CONSTANT open \in BOOLEAN,
           NEW CONSTANT doings
    PROVE  LibrarySpec(start, open, doings) => []StaleIsTold
  <1>1. LibraryInit(start, open) => LInv
    BY InitSound
  <1>2. LInv /\ [LibraryNext(doings)]_libraryVars => LInv'
    BY StepSound
  <1>3. LInv => StaleIsTold
    BY DEF LInv, AllSound, Aware, Hears, Elements, StaleIsTold
  <1> QED BY <1>1, <1>2, <1>3, PTL DEF LibrarySpec

\* No answer, however late, puts back a library older than the one a window shows.
THEOREM NeverBackHolds ==
    ASSUME NEW CONSTANT start, SoundLibrary(start, StartMade), NEW CONSTANT open \in BOOLEAN,
           NEW CONSTANT doings
    PROVE  LibrarySpec(start, open, doings) => NeverBack
  <1>1. LibraryInit(start, open) => LInv
    BY InitSound
  <1>2. LInv /\ [LibraryNext(doings)]_libraryVars => LInv'
    BY StepSound
  <1>3. LInv /\ [LibraryNext(doings)]_libraryVars =>
           [\A w \in Windows : win'[w].at >= win[w].at]_libraryVars
    BY StepSound DEF Forward
  <1> QED BY <1>1, <1>2, <1>3, PTL DEF LibrarySpec, NeverBack

\* Deleting a collection leaves every saved search with what its rules select, and after every write
\* a view is the smart collection of its one rule.
THEOREM SelectionsExactHolds ==
    ASSUME NEW CONSTANT start, SoundLibrary(start, StartMade), NEW CONSTANT open \in BOOLEAN,
           NEW CONSTANT doings
    PROVE  LibrarySpec(start, open, doings) => SelectionsExact
  <1>1. LibraryInit(start, open) => LInv
    BY InitSound
  <1>2. LInv /\ [LibraryNext(doings)]_libraryVars => LInv'
    BY StepSound
  <1>3. LInv /\ [LibraryNext(doings)]_libraryVars =>
          [DOMAIN server.parent \ DOMAIN server'.parent # {} =>
             \A s \in DOMAIN server.searches :
                LET meant == ItemsMatching(server', server.searches[s])
                IN IF s \in DOMAIN server'.searches THEN ItemsMatching(server', server'.searches[s]) = meant
                   ELSE meant \in {{}, server'.items}]_libraryVars
    <2> SUFFICES ASSUME LInv, [LibraryNext(doings)]_libraryVars,
                        DOMAIN server.parent \ DOMAIN server'.parent # {},
                        NEW s \in DOMAIN server.searches
                 PROVE  IF s \in DOMAIN server'.searches
                        THEN ItemsMatching(server', server'.searches[s]) =
                                ItemsMatching(server', server.searches[s])
                        ELSE ItemsMatching(server', server.searches[s]) \in {{}, server'.items}
      OBVIOUS
    <2>1. PICK r : Request(r) /\ Served(server, r) /\ server' = Outcome(server, r)
      BY StepWrites
    <2>2. made \in 0..Cap /\ SoundLibrary(server, made)
      BY DEF LInv
    <2>3. r.op = "deleteCollection"
      BY <2>1, <2>2, CollectionsStay
    <2>4. r.id \in DOMAIN server.parent /\ server' = DeleteCollection(server, r.id)
      BY <2>1, <2>3 DEF Served, Outcome
    <2> QED BY <2>2, <2>4, DeleteKeepsMeaning
  <1>4. [LibraryNext(doings)]_libraryVars =>
          [server' # server =>
             /\ \A c \in DOMAIN server'.parent : Agrees(server', [kind |-> "collection", id |-> c], "collection", c)
             /\ \A t \in Tags : Agrees(server', [kind |-> "tag", id |-> t], "tag", t)
             /\ Agrees(server', [kind |-> "unread"], "reading", "unread")
             /\ Agrees(server', [kind |-> "recent"], "added", 7)
             /\ Agrees(server', [kind |-> "offline"], "status", "offline")]_libraryVars
    BY ViewsAreRules
  <1>5. LibrarySpec(start, open, doings) => SearchesKeepMeaning
    BY <1>1, <1>2, <1>3, PTL DEF LibrarySpec, SearchesKeepMeaning
  <1>6. LibrarySpec(start, open, doings) => SmartAsView
    BY <1>4, PTL DEF LibrarySpec, SmartAsView
  <1> QED BY <1>5, <1>6 DEF SelectionsExact

=============================================================================
