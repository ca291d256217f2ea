------------------------------ MODULE MCLibrary ------------------------------
(* Instances of the library windows for TLC: a behaviour is one of the windows  *)
(* and the bucket, of one window's forms, or of what it makes of what it holds. *)
EXTENDS Library, Forms, Views, TLC

CONSTANTS w1, w2

Fact == [text |-> [title |-> {"knots"}, notes |-> {}], authors |-> {"ada"}, source |-> "arxiv.org",
         age |-> 3, page |-> 0, pages |-> 9, lost |-> FALSE, mirrored |-> FALSE]
PaperFacts == "a" :> Fact @@ "b" :> [Fact EXCEPT !.text["title"] = {"links"}, !.page = 9, !.lost = TRUE]

In(c) == [field |-> "collection", is |-> TRUE, value |-> c]
NotIn(c) == [field |-> "collection", is |-> FALSE, value |-> c]
Knots == [field |-> "text", is |-> TRUE, value |-> [words |-> {"knots"}, fields |-> {"title"}, any |-> FALSE]]
MCSearches == {[match |-> "all", rules |-> {NotIn(2)}]}
                  \cup {[match |-> m, rules |-> {In(2), Knots}] : m \in {"all", "any"}}

\* Two papers, one tagged; a collection with one below it that holds the other; a saved search.
Filed(s) ==
    [items |-> {"a", "b"}, tags |-> "a" :> {"t"} @@ "b" :> {}, filed |-> "a" :> {} @@ "b" :> {2},
     parent |-> <<None, 1>>, searches |-> 3 :> s]
Perms == Permutations(Windows)

KeyOf == "focusSearch" :> "ctrl+f" @@ "closeTab" :> "ctrl+w" @@ "nextTab" :> "ctrl+tab"
TableColumns == <<"title", "authors", "tags", "key">>

\* Reading sessions of two PDFs, of a step or longer.
Sittings == {[key |-> k, opened |-> o, seen |-> o + d, seconds |-> 1, pages |-> {o, o + d}] :
                k \in {"a", "b"}, o \in {1, 3, 4, 6}, d \in {0, 1, 4}}
FewSittings == {S \in UNION {{{s, t, u} : s \in Sittings, t \in Sittings} : u \in Sittings} :
                   \E s \in S : s.key = "a"}

VARIABLES
    part,   \* what a behaviour is of
    mix     \* what is done in it, and how much of it

mcVars == <<libraryVars, formsVars, viewsVars, part, mix>>

Mixes ==
    {[doings |-> {"tag", "remove"}, asks |-> 2, faults |-> 0, focused |-> 0],
     [doings |-> {"fileInNew", "removeCollection"}, asks |-> 2, faults |-> 0, focused |-> 0],
     [doings |-> {"file", "newCollection", "removeCollection"}, asks |-> 2, faults |-> 0, focused |-> 0],
     [doings |-> {"removeCollection", "smart"}, asks |-> 2, faults |-> 0, focused |-> 0],
     [doings |-> {"editItem", "updateCollection", "removeSearch", "import"}, asks |-> 1, faults |-> 1, focused |-> 1]}
FirstMix == CHOOSE m \in Mixes : "tag" \in m.doings

\* The parts a behaviour is not of start in one state.
Init ==
    /\ part \in {"windows", "dialogs", "panel", "items", "columns", "keys", "timeline"}
    /\ mix \in IF part = "windows" THEN Mixes ELSE {FirstMix}
    /\ LibraryInit(Filed([match |-> "all", rules |-> {In(2), Knots}]), mix.faults = 0)
    /\ FormsInit /\ (part # "panel" => panel.item = "a")
    /\ \E held \in IF part = "timeline" THEN FewSittings ELSE {{}} : ViewsInit(held)

Next ==
    /\ UNCHANGED <<part, mix>>
    /\ \/ /\ part = "windows" /\ LibraryNext(mix.doings)
          /\ asks' <= mix.asks /\ faults' <= mix.faults /\ focused' <= mix.focused
          /\ UNCHANGED <<formsVars, viewsVars>>
       \/ /\ part \in {"dialogs", "panel", "items"}
          /\ \/ part = "dialogs" /\ DialogsNext
             \/ part = "panel" /\ PanelNext /\ acts' <= 4
             \/ part = "items" /\ ItemsNext /\ acts' <= 3
          /\ UNCHANGED <<libraryVars, viewsVars>>
       \/ /\ (part = "columns" /\ ColumnsNext) \/ (part = "keys" /\ KeysNext)
          /\ UNCHANGED <<libraryVars, formsVars>>
Spec == Init /\ [][Next]_mcVars
=============================================================================
