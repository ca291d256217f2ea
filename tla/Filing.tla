------------------------------- MODULE Filing -------------------------------
(* The library as the bucket answers it: the stored PDFs with their tags and    *)
(* collections, the tree of collections and the saved searches; the changes the *)
(* bucket makes to them, and what the windows select from them.                 *)
EXTENDS Integers, Sequences, FiniteSets

CONSTANTS
    Items,      \* keys of PDFs
    Tags,       \* tags, the topics among them
    Topics,     \* the tags of the topic namespace
    Cap,        \* bound: collections, and saved searches, ever made
    Facts,      \* what each PDF's own record says of it (FactSet)
    None

ASSUME FilingAssumption == Topics \subseteq Tags /\ Cap \in Nat /\ None \notin 1..Cap

Ids == 1..Cap

Empty == <<>>
NewLibrary(items) ==
    [items |-> items, tags |-> [i \in Items |-> {}], filed |-> [i \in Items |-> {}],
     parent |-> Empty, searches |-> Empty]

----------------------------------------------------------------------------
(* The tree of collections.                                                     *)

Below(parent, ids) == {c \in DOMAIN parent : parent[c] \in ids}

\* A bug it could have: the collection and those right below it.
ChildrenOnly(parent, id) == {id} \cup Below(parent, {id})

\* id and every collection below it: grown by the collections below until it stays.
CollectionSubtree(parent, id) ==
    LET grown[n \in 0..Cap] ==
            IF n = 0 THEN {id} ELSE LET ids == grown[n - 1] IN ids \cup Below(parent, ids)
    IN grown[Cap]

----------------------------------------------------------------------------
(* What a view, a search and a saved search select.                             *)

\* Offline: the last check of the PDF's URL found it gone and no mirror serves it.
Availability(i) == IF Facts[i].lost /\ ~Facts[i].mirrored THEN "offline" ELSE "cached"

ReadingState(i) ==
    IF Facts[i].page = 0 THEN "unread" ELSE IF Facts[i].page = Facts[i].pages THEN "finished" ELSE "reading"

\* The words of the fields a search looks in.
SearchText(i, fields) == UNION {Facts[i].text[f] : f \in fields}

\* The items a search keeps: all of its words, or any, occur in its fields.
FilterItems(items, s) ==
    IF s.words = {} THEN items
    ELSE IF s.fields = {} THEN {}
    ELSE {i \in items : IF s.any THEN \E w \in s.words : w \in SearchText(i, s.fields)
                        ELSE \A w \in s.words : w \in SearchText(i, s.fields)}

\* A bug it could have: a rule on a collection looks at the filing in the collection itself only.
FiledIn(l, c, i) == c \in l.filed[i]

\* A rule on a collection means it and the ones below it.
FiledUnder(l, c, i) == l.filed[i] \cap CollectionSubtree(l.parent, c) # {}

\* Whether item i of library l has what rule r names.
Has(l, r, i) ==
    CASE r.field = "collection" -> FiledUnder(l, r.value, i)
      [] r.field = "tag"        -> r.value \in l.tags[i]
      [] r.field = "text"       -> i \in FilterItems({i}, r.value)
      [] r.field = "title"      -> r.value \in Facts[i].text["title"]
      [] r.field = "author"     -> r.value \in Facts[i].authors
      [] r.field = "source"     -> r.value = Facts[i].source
      [] r.field = "added"      -> Facts[i].age <= r.value
      [] r.field = "reading"    -> r.value = ReadingState(i)
      [] OTHER                  -> r.value = Availability(i)

RuleMatches(l, r) == {i \in l.items : Has(l, r, i) = r.is}

ItemsMatching(l, s) ==
    {i \in l.items : LET met(r) == i \in RuleMatches(l, r)
                     IN IF s.match = "all" THEN \A r \in s.rules : met(r) ELSE \E r \in s.rules : met(r)}

ItemsInView(l, v) ==
    CASE v.kind = "unfiled"    -> {i \in l.items : l.filed[i] = {}}
      [] v.kind = "unread"     -> {i \in l.items : Facts[i].page = 0}
      [] v.kind = "offline"    -> {i \in l.items : Availability(i) = "offline"}
      [] v.kind = "missing"    -> {}
      [] v.kind = "recent"     -> {i \in l.items : Facts[i].age <= 7}
      [] v.kind = "collection" -> {i \in l.items : l.filed[i] \cap CollectionSubtree(l.parent, v.id) # {}}
      [] v.kind = "tag"        -> {i \in l.items : v.id \in l.tags[i]}
      [] v.kind = "saved"      -> ItemsMatching(l, l.searches[v.id])
      [] OTHER                 -> l.items

----------------------------------------------------------------------------
(* The smart collection editor.                                                 *)

\* Whether a rule names something to match in the library shown.
Complete(l, r) ==
    CASE r.field = "collection" -> r.value \in DOMAIN l.parent
      [] r.field = "text"       -> r.value.words # {}
      [] OTHER                  -> TRUE

\* The values the library offers for a field.
Choices(l, field) ==
    LET tags == UNION {l.tags[i] : i \in l.items}
    IN CASE field = "tag"        -> tags \ Topics
         [] field = "topic"      -> tags \cap Topics
         [] field = "collection" -> DOMAIN l.parent
         [] OTHER                -> {Facts[i].source : i \in l.items}

\* The rules a new rule can be: on a collection the library has, on the text when it has none.
FirstRules(l) ==
    IF DOMAIN l.parent # {} THEN [field : {"collection"}, is : {TRUE}, value : Choices(l, "collection")]
    ELSE {[field |-> "text", is |-> TRUE, value |-> [words |-> {}, fields |-> {"title"}, any |-> FALSE]]}

----------------------------------------------------------------------------
(* The bucket's changes.                                                        *)

Delta(values, add, remove) == (values \ remove) \cup add

\* Every item of keys loses and gains the same tags and collections.
FileMany(l, keys, tags, collections) ==
    [l EXCEPT !.tags = [i \in Items |-> IF i \in keys THEN Delta(@[i], tags.add, tags.remove) ELSE @[i]],
              !.filed = [i \in Items |-> IF i \in keys THEN Delta(@[i], collections.add, collections.remove)
                                         ELSE @[i]]]

\* The item left the bucket: its filing goes with it.
RemoveItem(l, i) ==
    [l EXCEPT !.items = @ \ {i}, !.tags[i] = {}, !.filed[i] = {}]

Settled(r, gone) == r.field = "collection" /\ r.value \in gone

\* A bug it could have: a search may be left without a rule.
RepairedEmpty(s, gone) == {[s EXCEPT !.rules = {r \in @ : ~Settled(r, gone)}]}

\* A bug it could have: a rule on a collection that is gone only drops out.
RepairedDropped(s, gone) ==
    LET kept == {r \in s.rules : ~Settled(r, gone)} IN IF kept = {} THEN {} ELSE {[s EXCEPT !.rules = kept]}

\* The search without its rules on collections that are gone, selecting what it selected; none when
\* it now selects everything or nothing. A rule "is" one of them holds for no item.
Repaired(s, gone) ==
    LET deciding(r) == Settled(r, gone) /\ (~r.is) = (s.match = "any")
        kept == {r \in s.rules : ~Settled(r, gone)}
    IN IF kept = {} \/ \E r \in s.rules : deciding(r) THEN {} ELSE {[s EXCEPT !.rules = kept]}

\* The collections below it go too, no item stays in them, and the searches naming them are repaired.
DeleteCollection(l, id) ==
    LET gone == CollectionSubtree(l.parent, id)
        left == {s \in DOMAIN l.searches : Repaired(l.searches[s], gone) # {}}
    IN [l EXCEPT !.filed = [i \in Items |-> @[i] \ gone],
                 !.parent = [c \in DOMAIN @ \ gone |-> @[c]],
                 !.searches = [s \in left |-> CHOOSE r \in Repaired(@[s], gone) : TRUE]]

AddCollection(l, id, parent) ==
    [l EXCEPT !.parent = [c \in DOMAIN @ \cup {id} |-> IF c = id THEN parent ELSE @[c]]]

PutSearch(l, id, s) ==
    [l EXCEPT !.searches = [x \in DOMAIN @ \cup {id} |-> IF x = id THEN s ELSE @[x]]]

DeleteSearch(l, id) == [l EXCEPT !.searches = [x \in DOMAIN @ \ {id} |-> @[x]]]

\* A bug it could have: whatever collections a request names are taken.
AnyCollections(l, ids) == TRUE

KnownCollections(l, ids) == ids \subseteq DOMAIN l.parent

KnownRuleCollections(l, rules) ==
    KnownCollections(l, {r.value : r \in {x \in rules : x.field = "collection"}})
=============================================================================
