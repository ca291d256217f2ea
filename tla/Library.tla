------------------------------- MODULE Library -------------------------------
(* The library windows over one bucket: each shows the library as it last read  *)
(* or was answered it, asks for changes made from what it shows, and reads it   *)
(* again when a call ends, when it is focused and when the bucket tells of a    *)
(* write. Requests answered with the whole library go through one queue.        *)
EXTENDS Filing

CONSTANTS
    Windows,
    Searches,    \* the saved searches a user may build
    StartMade,   \* the ids of the library an instance starts from
    MaxAsks,     \* bound: what users ask for
    MaxFaults,   \* bound: requests whose answer is lost, and event streams dropped
    MaxFocus     \* bound: windows focused

ASSUME LibraryAssumption == {StartMade, MaxAsks, MaxFaults, MaxFocus} \subseteq Nat /\ StartMade + MaxAsks <= Cap
ASSUME SearchesAssumption ==
    \A s \in Searches : /\ DOMAIN s = {"match", "rules"} /\ s.match \in {"all", "any"}
                        /\ s.rules # {} /\ \A r \in s.rules : r.is \in BOOLEAN

VARIABLES
    server,   \* the library as the bucket holds it
    version,  \* how many writes made it
    made,     \* collections and saved searches made so far: an id is never used again
    due,      \* whether the index export has still to follow a write
    news,     \* windows with a new state of the export to hear
    hearing,  \* windows whose event stream is connected
    win,      \* each window's state of useLibraryApi
    calls,    \* each window's calls outside the queue
    said,     \* what users last had the bucket take of each item's tags and collections
    asks, faults, focused

libraryVars == <<server, version, made, due, news, hearing, win, calls, said, asks, faults, focused>>

Read == [op |-> "read"]
Opened ==
    [status |-> "loading", lib |-> NewLibrary({}), at |-> 0, failed |-> FALSE,
     waiting |-> FALSE, queue |-> <<>>, active |-> {}]

----------------------------------------------------------------------------
(* What the windows' controls send.                                             *)

\* A bug it could have: an item's tags are sent whole, as the window shows them.
ChangeTagsWhole(l, keys, add, remove) ==
    LET shown == UNION {l.tags[i] : i \in keys}
    IN [op |-> "tags", keys |-> keys, add |-> Delta(shown, add, remove), remove |-> Tags,
        meant |-> [add |-> add, remove |-> remove]]

\* A change names only what it adds and removes.
ChangeTags(l, keys, add, remove) ==
    [op |-> "tags", keys |-> keys, add |-> add, remove |-> remove,
     meant |-> [add |-> add, remove |-> remove]]

ChangeCollections(keys, add, remove) ==
    [op |-> "collections", keys |-> keys, add |-> add, remove |-> remove]

\* What may be asked of one item: a note or a mirror added or removed, its sources verified.
ItemChange(i) == [op |-> "item", keys |-> {i}]

----------------------------------------------------------------------------
(* What the bucket does with a request, under the filing lock.                  *)

Served(l, r) ==
    CASE r.op = "tags" -> r.keys \subseteq l.items
      [] r.op = "collections" -> r.keys \subseteq l.items /\ KnownCollections(l, r.add \cup r.remove)
      [] r.op \in {"item", "delete", "send", "describe"} -> r.keys \subseteq l.items
      [] r.op \in {"deleteCollection", "updateCollection"} -> r.id \in DOMAIN l.parent
      [] r.op = "newCollection" -> KnownCollections(l, {r.parent} \ {None})
      [] r.op = "newSearch" -> KnownRuleCollections(l, r.search.rules)
      [] r.op = "putSearch" -> KnownRuleCollections(l, r.search.rules) /\ r.id \in DOMAIN l.searches
      [] r.op = "deleteSearch" -> r.id \in DOMAIN l.searches
      [] OTHER -> TRUE

NoChange == [add |-> {}, remove |-> {}]
Outcome(l, r) ==
    CASE r.op = "tags" -> FileMany(l, r.keys, r, NoChange)
      [] r.op = "collections" -> FileMany(l, r.keys, NoChange, r)
      [] r.op \in {"delete", "send"} -> RemoveItem(l, CHOOSE i \in r.keys : TRUE)
      [] r.op = "deleteCollection" -> DeleteCollection(l, r.id)
      [] r.op = "newCollection" -> AddCollection(l, made + 1, r.parent)
      [] r.op = "newSearch" -> PutSearch(l, made + 1, r.search)
      [] r.op = "putSearch" -> PutSearch(l, r.id, r.search)
      [] r.op = "deleteSearch" -> DeleteSearch(l, r.id)
      [] r.op = "import" -> [l EXCEPT !.items = @ \cup r.keys]
      [] OTHER -> l

Makes(r) == r.op \in {"newCollection", "newSearch"}

\* The user's words: what each item was last told to carry.
Told(r) ==
    [i \in Items |->
        IF r.op \in {"tags", "collections"} /\ i \in r.keys
        THEN [said[i] EXCEPT !.tags = IF r.op = "tags" THEN Delta(@, r.meant.add, r.meant.remove) ELSE @,
                             !.filed = IF r.op = "collections" THEN Delta(@, r.add, r.remove) ELSE @]
        ELSE IF r.op \in {"delete", "send"} /\ i \in r.keys THEN [tags |-> {}, filed |-> {}]
        ELSE IF r.op = "deleteCollection"
             THEN [said[i] EXCEPT !.filed = @ \ CollectionSubtree(server.parent, r.id)]
             ELSE said[i]]

Write(r) ==
    /\ server' = Outcome(server, r)
    /\ version' = version + 1
    /\ made' = IF Makes(r) THEN made + 1 ELSE made
    /\ said' = Told(r)
    /\ due' = TRUE

----------------------------------------------------------------------------
(* The queue of one window. The next request is sent as soon as the last one is *)
(* answered.                                                                    *)

Sent(s) == [req |-> Head(s.queue), stage |-> "sent"]

\* A bug it could have: a read counts as waiting until the queue is empty.
PumpHeld(s) ==
    IF s.active # {} \/ s.queue = <<>> THEN [s EXCEPT !.waiting = @ /\ s.queue # <<>>]
    ELSE [s EXCEPT !.queue = Tail(@), !.active = {Sent(s)}]

\* A bug it could have: a request is sent at once.
PumpAtOnce(s) ==
    IF s.queue = <<>> THEN s
    ELSE [s EXCEPT !.queue = Tail(@), !.active = @ \cup {Sent(s)}, !.waiting = @ /\ Head(s.queue) # Read]

\* One request of the queue is under way. A read waits no more once it is sent: another may then
\* wait behind it.
Pump(s) ==
    IF s.active # {} \/ s.queue = <<>> THEN s
    ELSE [s EXCEPT !.queue = Tail(@), !.active = {Sent(s)}, !.waiting = @ /\ Head(s.queue) # Read]

Change(s, r) == Pump([s EXCEPT !.queue = Append(@, r)])
Refresh(s) == IF s.waiting THEN s ELSE Pump([s EXCEPT !.queue = Append(@, Read), !.waiting = TRUE])

Idle(s, a) == Pump([s EXCEPT !.active = @ \ {a}])

\* A request of the queue is answered with the library, which the window shows.
Show(s, a, items) ==
    Idle([s EXCEPT !.status = "ready", !.failed = FALSE, !.at = a.at, !.lib = [a.lib EXCEPT !.items = items]], a)

\* A failed read keeps the library shown, marked stale; the first one fails the window.
ReadFailed(s, a) ==
    Idle([s EXCEPT !.failed = s.status = "ready", !.status = IF @ = "ready" THEN @ ELSE "failed"], a)

\* A refused or lost change: the library is read again, and the caller says what refused it.
ChangeFailed(s, a) == Refresh(Idle(s, a))

----------------------------------------------------------------------------
(* What users do, from the library their window shows.                          *)

InQueue(w, r) == win' = [win EXCEPT ![w] = Change(@, r)] /\ UNCHANGED calls
Call(w, r) == calls' = [calls EXCEPT ![w] = @ \cup {r}] /\ UNCHANGED win

Tag(w, l) ==
    \/ \E keys \in (SUBSET l.items) \ {{}}, t \in Tags : InQueue(w, ChangeTags(l, keys, {t}, {}))
    \/ \E i \in l.items : \E t \in l.tags[i] : InQueue(w, ChangeTags(l, {i}, {}, {t}))

File(w, l) ==
    \/ \E keys \in (SUBSET l.items) \ {{}}, c \in DOMAIN l.parent : InQueue(w, ChangeCollections(keys, {c}, {}))
    \/ \E i \in l.items : \E c \in l.filed[i] : InQueue(w, ChangeCollections({i}, {}, {c}))

\* A new collection, which keys are filed in once it is made.
FileInNew(w, l) ==
    \E keys \in (SUBSET l.items) \ {{}} : Call(w, [op |-> "newCollection", parent |-> None, keys |-> keys])

NewCollection(w, l) ==
    \E p \in DOMAIN l.parent \cup {None} : Call(w, [op |-> "newCollection", parent |-> p, keys |-> {}])

UpdateCollection(w, l) ==
    \E c \in DOMAIN l.parent : InQueue(w, [op |-> "updateCollection", id |-> c])

RemoveCollection(w, l) ==
    \E c \in DOMAIN l.parent : InQueue(w, [op |-> "deleteCollection", id |-> c])

\* The editor begins with one rule.
Begun(l) == {[match |-> "all", rules |-> {r}] : r \in FirstRules(l)}

\* It saves once every rule is complete in the library shown.
SaveSmartCollection(w, l) ==
    \E s \in {x \in Searches \cup Begun(l) : \A r \in x.rules : Complete(l, r)} :
        \/ Call(w, [op |-> "newSearch", search |-> s])
        \/ \E id \in DOMAIN l.searches : InQueue(w, [op |-> "putSearch", id |-> id, search |-> s])

RemoveSearch(w, l) ==
    \E id \in DOMAIN l.searches : InQueue(w, [op |-> "deleteSearch", id |-> id])

EditItem(w, l) ==
    \E i \in l.items : InQueue(w, ItemChange(i)) \/ Call(w, [op |-> "describe", keys |-> {i}])

Remove(w, l) ==
    \E i \in l.items : \/ InQueue(w, [op |-> "delete", keys |-> {i}])
                       \/ Call(w, [op |-> "send", keys |-> {i}])

Import(w, l) == \E i \in Items : Call(w, [op |-> "import", keys |-> {i}])

Do(w, what, l) ==
    CASE what = "tag" -> Tag(w, l)
      [] what = "file" -> File(w, l)
      [] what = "fileInNew" -> FileInNew(w, l)
      [] what = "newCollection" -> NewCollection(w, l)
      [] what = "updateCollection" -> UpdateCollection(w, l)
      [] what = "removeCollection" -> RemoveCollection(w, l)
      [] what = "smart" -> SaveSmartCollection(w, l)
      [] what = "removeSearch" -> RemoveSearch(w, l)
      [] what = "editItem" -> EditItem(w, l)
      [] what = "remove" -> Remove(w, l)
      [] OTHER -> Import(w, l)

\* One of the doings of an instance.
Ask(w, doings) ==
    /\ win[w].status = "ready" /\ asks < MaxAsks
    /\ \E what \in doings : Do(w, what, win[w].lib)
    /\ asks' = asks + 1
    /\ UNCHANGED <<server, version, made, due, news, hearing, said, faults, focused>>

Focus(w) ==
    /\ focused < MaxFocus /\ focused' = focused + 1
    /\ win' = [win EXCEPT ![w] = Refresh(@)]
    /\ UNCHANGED <<server, version, made, due, news, hearing, calls, said, asks, faults>>

\* A new try after the first read failed.
Reload(w) ==
    /\ win[w].status = "failed"
    /\ win' = [win EXCEPT ![w] = Refresh([@ EXCEPT !.status = "loading"])]
    /\ UNCHANGED <<server, version, made, due, news, hearing, calls, said, asks, faults, focused>>

----------------------------------------------------------------------------
(* Requests and events.                                                         *)

\* The bucket takes the request under way.
Serve(w) ==
    \E a \in win[w].active :
        LET ok == Served(server, a.req) IN
        /\ a.stage = "sent"
        /\ IF a.req # Read /\ ok THEN Write(a.req) ELSE UNCHANGED <<server, version, made, said, due>>
        /\ win' = [win EXCEPT ![w].active = (@ \ {a}) \cup
                     {IF ok THEN [req |-> a.req, stage |-> "done", at |-> version', lib |-> server']
                      ELSE [req |-> a.req, stage |-> "refused"]}]
        /\ UNCHANGED <<news, hearing, calls, asks, faults, focused>>

\* The stored PDFs are listed after the filing was written or read.
Answer(w) ==
    \E a \in win[w].active :
        /\ \/ a.stage = "done" /\ win' = [win EXCEPT ![w] = Show(@, a, server.items)]
           \/ a.stage = "refused" /\ win' = [win EXCEPT ![w] = ChangeFailed(@, a)]
        /\ UNCHANGED <<server, version, made, due, news, hearing, calls, said, asks, faults, focused>>

\* The bucket takes a call, which ends with its answer; the library is then read again, except
\* after the collection of FileInNew, whose filing follows.
ServeCall(w) ==
    \E r \in calls[w] :
        LET files == r.op = "newCollection" /\ r.keys # {} IN
        /\ IF Served(server, r) THEN Write(r) ELSE UNCHANGED <<server, version, made, said, due>>
        /\ calls' = [calls EXCEPT ![w] = @ \ {r}]
        /\ win' = [win EXCEPT ![w] = IF files THEN Change(@, ChangeCollections(r.keys, {made + 1}, {}))
                                     ELSE Refresh(@)]
        /\ UNCHANGED <<news, hearing, asks, faults, focused>>

\* The connection drops under a request, which the bucket may have taken.
Lose(w) ==
    /\ faults < MaxFaults /\ faults' = faults + 1
    /\ \E a \in win[w].active :
          win' = [win EXCEPT ![w] = IF a.req = Read THEN ReadFailed(@, a) ELSE ChangeFailed(@, a)]
    /\ UNCHANGED <<server, version, made, due, news, hearing, calls, said, asks, focused>>

\* The export follows the writes; every connected window is told its new state.
Export ==
    /\ due /\ due' = FALSE
    /\ news' = hearing
    /\ UNCHANGED <<server, version, made, hearing, win, calls, said, asks, faults, focused>>

Hear(w) ==
    /\ w \in news /\ news' = news \ {w}
    /\ win' = [win EXCEPT ![w] = Refresh(@)]
    /\ UNCHANGED <<server, version, made, due, hearing, calls, said, asks, faults, focused>>

\* A dropped stream loses what was under way; connected again, it starts with the export's state.
Drop(w) ==
    /\ w \in hearing /\ faults < MaxFaults /\ faults' = faults + 1
    /\ hearing' = hearing \ {w} /\ news' = news \ {w}
    /\ UNCHANGED <<server, version, made, due, win, calls, said, asks, focused>>

Connect(w) ==
    /\ w \notin hearing /\ hearing' = hearing \cup {w}
    /\ news' = IF due THEN news ELSE news \cup {w}
    /\ UNCHANGED <<server, version, made, due, win, calls, said, asks, faults, focused>>

\* The windows open over the library start, or have been open for a while.
LibraryInit(start, open) ==
    /\ server = start
    /\ version = 0 /\ made = StartMade /\ due = FALSE
    /\ hearing = Windows /\ news = IF open THEN {} ELSE Windows
    /\ win = [w \in Windows |-> IF open THEN [Opened EXCEPT !.status = "ready", !.lib = start] ELSE Refresh(Opened)]
    /\ calls = [w \in Windows |-> {}]
    /\ said = [i \in Items |-> [tags |-> start.tags[i], filed |-> start.filed[i]]]
    /\ asks = 0 /\ faults = 0 /\ focused = 0

LibraryNext(doings) ==
    \/ Export
    \/ \E w \in Windows : \/ Ask(w, doings) \/ Focus(w) \/ Reload(w) \/ Serve(w) \/ Answer(w)
                          \/ ServeCall(w) \/ Lose(w) \/ Hear(w) \/ Drop(w) \/ Connect(w)

----------------------------------------------------------------------------
(* Properties.                                                                  *)

\* Every window and the bucket hold a library, and a window has sent one request of its queue.
LibraryTypeOK ==
    /\ \A l \in {server} \cup {win[w].lib : w \in Windows} :
          /\ l.items \subseteq Items /\ DOMAIN l.parent \subseteq 1..made /\ DOMAIN l.searches \subseteq 1..made
          /\ \A i \in Items : l.tags[i] \subseteq Tags /\ l.filed[i] \subseteq Ids
          /\ \A s \in DOMAIN l.searches : l.searches[s].rules # {}
    /\ \A w \in Windows : /\ win[w].status \in {"loading", "ready", "failed"}
                          /\ win[w].at \in 0..version
                          /\ win[w].queue # <<>> => win[w].active # {}

\* The library shown never goes back to one an earlier write made (the queue: an answer that arrives
\* late cannot put an older library back).
NeverBack == [][\A w \in Windows : win'[w].at >= win[w].at]_libraryVars

\* A window that shows an older library than the bucket holds says so, or has a read coming: one
\* waits in its queue or is still to be taken, or a new state of the export will tell it.
StaleIsTold ==
    \A w \in Windows :
        LET s == win[w]
            reading == \/ \E a \in s.active : a.stage \in {"sent", "refused"} \/ a.at = version
                       \/ Read \in {s.queue[n] : n \in DOMAIN s.queue}
        IN s.at < version \/ s.status = "loading" =>
              s.failed \/ s.status = "failed" \/ reading \/ due \/ w \in news \/ w \notin hearing

\* Two changes made from stale libraries both land: an item carries the tags and lies in the
\* collections it was last told to, whoever changed it in between.
LastWordStands ==
    \A i \in server.items : server.tags[i] = said[i].tags /\ server.filed[i] = said[i].filed

\* Nothing names a collection that is gone: no item lies in one, none lies below one, no saved
\* search asks for one.
NothingDangles ==
    LET known == DOMAIN server.parent
    IN /\ \A i \in Items : server.filed[i] \subseteq known
       /\ \A c \in known : server.parent[c] \in known \cup {None}
       /\ \A s \in DOMAIN server.searches : KnownRuleCollections(server, server.searches[s].rules)

\* Deleting a collection leaves every saved search with what its rules select; one is dropped only
\* when they select everything or nothing.
SearchesKeepMeaning ==
    [][DOMAIN server.parent \ DOMAIN server'.parent # {} =>
        \A s \in DOMAIN server.searches :
            LET meant == ItemsMatching(server', server.searches[s])
            IN IF s \in DOMAIN server'.searches THEN ItemsMatching(server', server'.searches[s]) = meant
               ELSE meant \in {{}, server'.items}]_libraryVars

\* In library l view v shows what a smart collection of the one rule selects, and the rule turned
\* around selects the rest.
Agrees(l, v, f, x) ==
    LET smart(is) == ItemsMatching(l, [match |-> "all", rules |-> {[field |-> f, is |-> is, value |-> x]}])
        shown == ItemsInView(l, v)
    IN smart(TRUE) = shown /\ smart(FALSE) = l.items \ shown

\* Whatever a write leaves, a view is the smart collection of its one rule.
SmartAsView ==
    [][server' # server =>
        /\ \A c \in DOMAIN server'.parent : Agrees(server', [kind |-> "collection", id |-> c], "collection", c)
        /\ \A t \in Tags : Agrees(server', [kind |-> "tag", id |-> t], "tag", t)
        /\ Agrees(server', [kind |-> "unread"], "reading", "unread")
        /\ Agrees(server', [kind |-> "recent"], "added", 7)
        /\ Agrees(server', [kind |-> "offline"], "status", "offline")]_libraryVars

\* A collection's view holds the PDFs of every collection whose line of parents leads to it.
SubtreeIsDescent ==
    LET parent == server.parent
        line[c \in Ids] == {c} \cup IF c \in DOMAIN parent /\ parent[c] # None THEN line[parent[c]] ELSE {}
    IN \A c \in DOMAIN parent :
          ItemsInView(server, [kind |-> "collection", id |-> c]) =
             {i \in server.items : \E d \in server.filed[i] : c \in line[d]}

\* Whatever windows ask of the bucket from libraries that are stale, its filing stays one a
\* reader of it can rely on.
FilingSound == LibraryTypeOK /\ NothingDangles /\ LastWordStands /\ SubtreeIsDescent

\* A saved search and a view select what they mean, after every change.
SelectionsExact == SearchesKeepMeaning /\ SmartAsView
=============================================================================
