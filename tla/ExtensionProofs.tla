--------------------------- MODULE ExtensionProofs ---------------------------
(* No capture is delivered twice at once or handed on too often, and a download *)
(* thrown away is stored or its frame's, for any number of responses, tabs and  *)
(* URLs and however often workers stop, downloads resume and builds change.     *)
EXTENDS MCExtension, SequenceTheorems, TLAPS

\* The operations that wait for a worker: in its mutex's queue, or as events until it starts.
Waiting == IF up THEN queue ELSE events

OpNames == {"mark", "claim", "write", "begin", "resume", "release"}
Ops == [op : OpNames, d : Responses \cup {0}, of : Responses \cup {0}]
Claiming == {"claim", "write"}

\* Claims taken up again come first and before every release; a download is claimed once and
\* not while a release of it waits.
Shape(w) ==
    /\ \A i \in 1..Len(w) : w[i].op = "resume" => i = 1
    /\ \A i, j \in 1..Len(w) : w[i].op = "resume" => w[j].op # "release"
    /\ \A i, j \in 1..Len(w) :
          w[i].op \in Claiming /\ w[j].op \in Claiming \cup {"release"} /\ w[i].d = w[j].d => i = j

----------------------------------------------------------------------------
(* The invariant.                                                               *)

Seen == {r \in Responses : item[r] # "none"}
Linked(d, of) == d \in Seen /\ of \in Seen /\ req[d].url = req[of].url

\* What the browser received and made of it, what is kept of that, and what is known of its end.
WorldInv ==
    /\ browser \in {"chrome", "firefox"} /\ open \subseteq Tabs
    /\ item \in [Responses -> ItemStates]
    /\ DOMAIN req = Responses
    /\ \A r \in Responses : IF r \in Seen THEN req[r] \in [url : Urls, tab : Tabs, kind : Kinds[r]]
                                           ELSE req[r] = Nothing
    /\ browser = "firefox" => \A r \in Seen : req[r].kind # "link" => item[r] = "shown"
    /\ marks \in Seq(Seen)
    /\ held \subseteq Seen /\ (held # {} => browser = "firefox")
    /\ stored \subseteq Urls /\ told \in [Responses -> SUBSET Ends]

\* A delivery goes on under its claim, and only one claimed has begun: what the browser shows
\* (kind "page") is captured from its page.
RunOK(x) ==
    /\ Linked(x.d, x.of)
    /\ x.kind = "page" => item[x.d] = "shown" /\ x.pc \in {"check", "post", "report"}
    /\ x.kind # "page" =>
          /\ item[x.d] # "shown"
          /\ claims[x.d] # None /\ claims[x.d].n = x.n /\ x.n > 0
          /\ x.pc \in {"search", "check", "post"} => posts[x.d] < x.n
          /\ x.pc = "post" \/ (x.pc = "check" /\ x.kind # "lost") => x.n <= MaxDeliveries
    /\ x.out = "small" => req[x.of].kind = "small"
    /\ x.pc \in {"remove", "erase"} => x.out = "small" \/ req[x.of].url \in stored
    /\ x.pc = "hand" => x.out = "small"

ClaimOK(d) ==
    /\ claims[d] # None => /\ Linked(d, claims[d].of) /\ item[d] # "shown"
                           /\ posts[d] <= claims[d].n
    /\ d \notin Seen => posts[d] = 0

\* What an operation that waits will find.
Unclaimed(d) == claims[d] = None /\ posts[d] = 0 /\ \A x \in runs : x.d = d => x.kind = "page"
Releasing(d) == claims[d].n # 0 /\ \A x \in runs : x.d = d /\ x.kind # "page" => x.pc = "release"
WaitingOK(q) ==
    /\ q.op = "resume" => \A x \in runs : x.kind = "page"
    /\ q.op # "resume" => Linked(q.d, q.of)
    /\ q.op \notin {"resume", "mark"} => item[q.d] # "shown"
    /\ q.op \in Claiming => Unclaimed(q.d)
    /\ q.op = "release" => Releasing(q.d)
Sound == {q \in Ops : WaitingOK(q)}

Claims == [Responses -> {None} \cup [of : Responses, n : 0 .. MaxDeliveries + 1]]
WorkInv ==
    /\ claims \in Claims /\ posts \in [Responses -> Nat] /\ HandedOnRarely
    /\ \A d \in Responses : ClaimOK(d)
    /\ runs \subseteq Runs /\ OneDelivery
    /\ \A x \in runs : RunOK(x)
    /\ Waiting \in Seq(Sound) /\ Shape(Waiting)
    /\ up \in BOOLEAN
    /\ up => events = <<>>
    /\ ~up => /\ queue = <<>> /\ runs = {}
              /\ \A i \in 1..Len(events) : events[i].op \notin {"resume", "release"}

\* A build that may still be reloaded for was provisioned since the last reload.
BuildInv ==
    /\ count \in [kills : Nat, retries : Nat, switches : Nat, updates : Nat, reloads : Nat]
    /\ stale \in BOOLEAN /\ reloaded \in BOOLEAN
    /\ browser = "chrome" => /\ count.reloads <= count.updates
                             /\ stale /\ ~reloaded => count.reloads < count.updates

IInv == WorldInv /\ WorkInv /\ DiscardedIsHeld /\ BuildInv

\* What was received stays what it is, and what the browser shows it goes on to show.
Grows == \A r \in Seen : r \in Seen' /\ req'[r] = req[r] /\ (item'[r] = "shown" <=> item[r] = "shown")

----------------------------------------------------------------------------
(* The operations in their order.                                               *)

\* A sequence of a set whose members lie in another is one of that.
LEMMA Retype ==
    ASSUME NEW S, NEW T, NEW w \in Seq(S), \A i \in 1..Len(w) : w[i] \in T
    PROVE  w \in Seq(T)
BY IsASeq, LenProperties

\* What follows the first operation keeps the shape, and waits for no claims to be taken up.
LEMMA ShapeTail ==
    ASSUME NEW S, NEW w \in Seq(S), w # <<>>, Shape(w)
    PROVE  /\ Tail(w) \in Seq(S) /\ Shape(Tail(w)) /\ Head(w) \in S
           /\ \A i \in 1..Len(Tail(w)) : Tail(w)[i] = w[i + 1] /\ Tail(w)[i].op # "resume"
<1>1. /\ Head(w) \in S /\ Tail(w) \in Seq(S) /\ Len(w) \in Nat /\ Len(Tail(w)) = Len(w) - 1
      /\ \A i \in 1..Len(Tail(w)) : Tail(w)[i] = w[i + 1]
  BY HeadTailProperties, LenProperties
<1>2. \A i \in 1..Len(Tail(w)) : i + 1 \in 1..Len(w) /\ i + 1 # 1 BY <1>1
<1> QED BY <1>1, <1>2 DEF Shape

\* An operation queued last keeps the shape unless it claims or releases what waits already.
LEMMA ShapeMore ==
    ASSUME NEW S, NEW w \in Seq(S), NEW e \in Seq(S), Len(e) <= 1, Shape(w),
           \A i \in 1..Len(e) :
              /\ e[i].op # "resume"
              /\ \A j \in 1..Len(w) :
                    /\ e[i].op = "release" => w[j].op # "resume"
                    /\ w[j].d = e[i].d =>
                          /\ e[i].op \in Claiming \cup {"release"} => w[j].op \notin Claiming
                          /\ e[i].op \in Claiming => w[j].op # "release"
    PROVE  w \o e \in Seq(S) /\ Shape(w \o e)
<1> DEFINE c == w \o e
<1>1. /\ c \in Seq(S) /\ Len(c) = Len(w) + Len(e) /\ Len(w) \in Nat /\ Len(e) \in Nat
      /\ \A i \in 1..Len(c) : c[i] = IF i <= Len(w) THEN w[i] ELSE e[i - Len(w)]
  BY ConcatProperties, LenProperties
<1>2. \A i \in 1..Len(c) :
          \/ i \in 1..Len(w) /\ c[i] = w[i]
          \/ i = Len(w) + 1 /\ 1 \in 1..Len(e) /\ c[i] = e[1]
  BY <1>1
<1> HIDE DEF c
<1>3. ASSUME NEW i \in 1..Len(c), c[i].op = "resume" PROVE i = 1 BY <1>2, <1>3 DEF Shape
<1>4. ASSUME NEW i \in 1..Len(c), NEW j \in 1..Len(c), c[i].op = "resume" PROVE c[j].op # "release"
  BY <1>2, <1>4 DEF Shape
<1>5. ASSUME NEW i \in 1..Len(c), NEW j \in 1..Len(c), c[i].op \in Claiming,
             c[j].op \in Claiming \cup {"release"}, c[i].d = c[j].d
      PROVE  i = j
  <2>1. CASE i \in 1..Len(w) /\ c[i] = w[i] /\ j \in 1..Len(w) /\ c[j] = w[j] BY <1>5, <2>1 DEF Shape
  <2>2. CASE i \in 1..Len(w) /\ c[i] = w[i] /\ 1 \in 1..Len(e) /\ c[j] = e[1] BY <1>5, <2>2
  <2>3. CASE j \in 1..Len(w) /\ c[j] = w[j] /\ 1 \in 1..Len(e) /\ c[i] = e[1] BY <1>5, <2>3
  <2>4. CASE i = Len(w) + 1 /\ j = Len(w) + 1 BY <2>4
  <2> QED BY <1>2, <2>1, <2>2, <2>3, <2>4
<1> QED BY <1>1, <1>3, <1>4, <1>5 DEF Shape, c

\* The first operation may become another of the same claim.
LEMMA ShapePut ==
    ASSUME NEW S, NEW w \in Seq(S), w # <<>>, Shape(w), NEW x \in S,
           Head(w).op \in Claiming, x.op \in Claiming, x.d = Head(w).d
    PROVE  <<x>> \o Tail(w) \in Seq(S) /\ Shape(<<x>> \o Tail(w))
<1> DEFINE c == <<x>> \o Tail(w)
<1>1. /\ Tail(w) \in Seq(S) /\ Len(w) \in Nat \ {0} /\ Len(Tail(w)) = Len(w) - 1 /\ Head(w) = w[1]
      /\ \A i \in 1..Len(Tail(w)) : Tail(w)[i] = w[i + 1]
  BY HeadTailProperties, EmptySeq, LenProperties
<1>2. <<x>> \in Seq(S) /\ Len(<<x>>) = 1 /\ <<x>>[1] = x OBVIOUS
<1>3. /\ c \in Seq(S) /\ Len(c) = Len(w)
      /\ \A i \in 1..Len(c) : c[i] = IF i = 1 THEN x ELSE w[i]
  BY <1>1, <1>2, ConcatProperties
<1> HIDE DEF c
<1>4. Shape(c) BY <1>1, <1>3 DEF Shape, Claiming
<1> QED BY <1>3, <1>4 DEF c

\* A worker that starts takes its claims up first; nobody waits for a release.
LEMMA ShapeFirst ==
    ASSUME NEW S, NEW w \in Seq(S), Shape(w), NEW x \in S, x.op = "resume",
           \A i \in 1..Len(w) : w[i].op \notin {"resume", "release"}
    PROVE  <<x>> \o w \in Seq(S) /\ Shape(<<x>> \o w)
<1> DEFINE c == <<x>> \o w
<1>1. <<x>> \in Seq(S) /\ Len(<<x>>) = 1 /\ <<x>>[1] = x /\ Len(w) \in Nat BY LenProperties
<1>2. /\ c \in Seq(S) /\ Len(c) = Len(w) + 1
      /\ \A i \in 1..Len(c) : c[i] = IF i = 1 THEN x ELSE w[i - 1]
  BY <1>1, ConcatProperties
<1>3. \A i \in 1..Len(c) : i = 1 \/ i - 1 \in 1..Len(w) BY <1>1, <1>2
<1> HIDE DEF c
<1>4. ASSUME NEW i \in 1..Len(c), NEW j \in 1..Len(c), c[i].op \in Claiming,
             c[j].op \in Claiming \cup {"release"}, c[i].d = c[j].d
      PROVE  i = j
  <2>1. i # 1 /\ j # 1 BY <1>2, <1>4 DEF Claiming
  <2>2. i - 1 = j - 1 BY <1>2, <1>3, <1>4, <2>1 DEF Shape
  <2> QED BY <1>2, <2>2
<1>5. \A i \in 1..Len(c) : (c[i].op = "resume" => i = 1) /\ c[i].op # "release" BY <1>2, <1>3
<1> QED BY <1>2, <1>4, <1>5 DEF Shape, c

----------------------------------------------------------------------------
(* The browser's world.                                                         *)

LEMMA LinkedKept ==
    ASSUME Grows, NEW d, NEW of, Linked(d, of)
    PROVE  Linked(d, of)' /\ d \in Seen /\ (item'[d] = "shown" <=> item[d] = "shown")
BY DEF Grows, Linked

\* Most steps leave what the browser received and made of it.
LEMMA WorldKept ==
    ASSUME WorldInv, UNCHANGED <<browser, item, req>>, open' \subseteq open,
           marks' \in Seq(Seen), held' \subseteq Seen, held' # {} => browser = "firefox",
           stored' \subseteq Urls, told' \in [Responses -> SUBSET Ends]
    PROVE  WorldInv' /\ Grows
<1>1. Seen' = Seen BY DEF Seen
<1> QED BY <1>1 DEF WorldInv, Grows

\* A download goes on, ends or is thrown away.
LEMMA ItemChanges ==
    ASSUME WorldInv, NEW d \in Seen, item[d] # "shown", NEW to \in ItemStates \ {"none", "shown"},
           item' = [item EXCEPT ![d] = to], UNCHANGED <<browser, req, open, marks, held, stored, told>>
    PROVE  WorldInv' /\ Grows
<1>1. /\ item' \in [Responses -> ItemStates] /\ item'[d] = to
      /\ \A r \in Responses \ {d} : item'[r] = item[r]
  BY DEF WorldInv, Seen
<1>2. Seen' = Seen BY <1>1 DEF Seen
<1> QED BY <1>1, <1>2 DEF WorldInv, Grows

\* A response is what no other has been.
LEMMA Received ==
    ASSUME WorldInv, NEW r \in Responses, item[r] = "none", NEW u \in Urls, NEW t \in open,
           NEW k \in Kinds[r], NEW to \in {"running", "shown"},
           browser = "firefox" /\ k # "link" => to = "shown",
           req' = [req EXCEPT ![r] = [url |-> u, tab |-> t, kind |-> k]],
           item' = [item EXCEPT ![r] = to], UNCHANGED <<browser, open, marks, held, stored, told>>
    PROVE  WorldInv' /\ Grows /\ r \in Seen'
<1>1. /\ item' \in [Responses -> ItemStates] /\ item'[r] = to
      /\ \A s \in Responses \ {r} : item'[s] = item[s] /\ req'[s] = req[s]
      /\ DOMAIN req' = Responses /\ req'[r] = [url |-> u, tab |-> t, kind |-> k]
  BY DEF WorldInv, ItemStates
<1>2. Seen' = Seen \cup {r} /\ r \notin Seen BY <1>1 DEF Seen
<1>3. marks' \in Seq(Seen') BY <1>2, SeqMonotonic DEF WorldInv
<1>4. \A s \in Seen' : s = r \/ s \in Seen BY <1>2
<1>5. \A s \in Responses : IF s \in Seen' THEN req'[s] \in [url : Urls, tab : Tabs, kind : Kinds[s]]
                                          ELSE req'[s] = Nothing
  <2>1. req'[r] \in [url : Urls, tab : Tabs, kind : Kinds[r]] BY <1>1 DEF WorldInv
  <2> QED BY <1>1, <1>2, <2>1 DEF WorldInv
<1>6. browser' = "firefox" => \A s \in Seen' : req'[s].kind # "link" => item'[s] = "shown"
  BY <1>1, <1>2, <1>4 DEF WorldInv, Seen
<1> QED BY <1>1, <1>2, <1>3, <1>5, <1>6 DEF WorldInv, Grows, Seen

\* What a delivery makes of the world: a file is removed, a PDF stored, an outcome told.
LEMMA DeliveryOfWorld == ASSUME IInv, NEW run \in runs, Deliver(run) PROVE WorldInv' /\ Grows
<1> USE DEF IInv
<1>1. run \in Runs /\ RunOK(run) BY DEF WorkInv
<1>2. run.d \in Seen /\ run.of \in Seen /\ req[run.of].url \in Urls
  BY <1>1 DEF RunOK, Linked, WorldInv, Seen
<1>3. ASSUME UNCHANGED <<browser, req, item, open, marks, stored>>, held' \subseteq held,
             told' = told \/ \E what \in {"failed", "native", "shown", "handed"} : Tell(run.of, what)
      PROVE  WorldInv' /\ Grows
  <2>1. told' \in [Responses -> SUBSET Ends]
    BY <1>3 DEF Tell, WorldInv, Ends
  <2> QED BY <1>3, <2>1, WorldKept DEF WorldInv
<1>4. CASE Search(run) BY <1>3, <1>4 DEF Search, Keep, ledger
<1>5. CASE Check(run) BY <1>3, <1>5 DEF Check, Keep, ledger
<1>6. CASE Post(run)
  <2>1. stored' \subseteq Urls BY <1>2, <1>6 DEF Post, WorldInv
  <2> QED BY <1>6, <2>1, WorldKept DEF Post, Keep, WorldInv
<1>7. CASE RemoveFile(run)
  <2>1. CASE item[run.d] = "removed"
    BY <1>3, <1>7, <2>1 DEF RemoveFile, Keep, ledger
  <2>2. CASE item[run.d] # "removed"
    <3>1. item[run.d] # "shown" BY <1>1, <1>7 DEF RunOK, RemoveFile, At
    <3>2. item' = [item EXCEPT ![run.d] = "removed"] BY <1>7, <2>2 DEF RemoveFile
    <3> QED BY <1>2, <1>7, <3>1, <3>2, ItemChanges DEF RemoveFile, Keep, ledger, ItemStates
  <2> QED BY <2>1, <2>2
<1>8. CASE Erase(run)
  <2>1. item[run.d] # "shown" BY <1>1, <1>8 DEF RunOK, Erase, At
  <2> QED BY <1>2, <1>8, <2>1, ItemChanges DEF Erase, Keep, ledger, ItemStates
<1>9. CASE Hand(run) BY <1>3, <1>9 DEF Hand, Keep
<1>10. CASE Show(run) BY <1>3, <1>10 DEF Show, Keep
<1>11. CASE Report(run) BY <1>3, <1>11 DEF Report, Keep
<1> QED BY <1>4, <1>5, <1>6, <1>7, <1>8, <1>9, <1>10, <1>11 DEF Deliver

\* A mark is added, or taken by the download that claims it.
LEMMA MarksOfWorld == ASSUME IInv, Exclusive PROVE WorldInv' /\ Grows
<1> USE DEF IInv
<1> DEFINE q == Head(queue)
<1>1. /\ UNCHANGED <<browser, item, req, open, stored, told>> /\ up /\ queue # <<>>
  BY DEF Exclusive, world, ledger
<1>2. queue \in Seq(Sound) /\ q \in Sound
  BY <1>1, HeadTailProperties DEF WorkInv, Waiting
<1>3. ASSUME marks' \in Seq(Seen), held' \subseteq held PROVE WorldInv' /\ Grows
  BY <1>1, <1>3, WorldKept DEF WorldInv
<1>4. CASE q.op = "mark"
  <2>1. q.d \in Seen BY <1>2, <1>4 DEF Sound, WaitingOK, Linked
  <2>2. Mark(q.d) BY <1>4 DEF Exclusive
  <2>3. CASE UNCHANGED <<marks, held>> BY <1>3, <2>3 DEF WorldInv
  <2>4. CASE /\ \E old \in 0..Len(marks) : marks' = Append(SubSeq(marks, old + 1, Len(marks)), q.d)
             /\ held' = IF browser = "firefox" THEN held \cup {q.d} ELSE held
    <3>1. PICK old \in 0..Len(marks) : marks' = Append(SubSeq(marks, old + 1, Len(marks)), q.d)
      BY <2>4
    <3>2. SubSeq(marks, old + 1, Len(marks)) \in Seq(Seen)
      BY <3>1, SubSeqProperties, ElementOfSeq, LenProperties DEF WorldInv
    <3>3. marks' \in Seq(Seen) BY <2>1, <3>1, <3>2, AppendProperties
    <3> QED BY <1>1, <2>1, <2>4, <3>3, WorldKept DEF WorldInv
  <2> QED BY <2>2, <2>3, <2>4 DEF Mark
<1>5. CASE q.op = "claim"
  <2>1. Claim(q.d) /\ UNCHANGED held BY <1>5 DEF Exclusive
  <2>2. CASE UNCHANGED marks BY <1>3, <2>1, <2>2 DEF WorldInv
  <2>3. ASSUME NEW i \in Mine(q.d), marks' = RemoveAt(marks, i) PROVE WorldInv' /\ Grows
    <3>1. i \in 1..Len(marks) /\ Len(marks) \in Nat BY LenProperties DEF Mine, WorldInv
    <3>2. SubSeq(marks, 1, i - 1) \in Seq(Seen) /\ SubSeq(marks, i + 1, Len(marks)) \in Seq(Seen)
      BY <3>1, SubSeqProperties, ElementOfSeq DEF WorldInv
    <3>3. marks' \in Seq(Seen) BY <2>3, <3>2, ConcatProperties DEF RemoveAt
    <3> QED BY <1>3, <2>1, <3>3
  <2> QED BY <2>1, <2>2, <2>3 DEF Claim
<1>6. CASE q.op \in {"write", "begin", "resume", "release"}
  BY <1>3, <1>6 DEF Exclusive, WorldInv
<1> QED BY <1>2, <1>4, <1>5, <1>6 DEF Sound, Ops, OpNames

LEMMA WorldInductive == ASSUME IInv, [Next]_vars PROVE WorldInv' /\ Grows
<1> USE DEF IInv
<1>0. Down => told' \in [Responses -> SUBSET Ends] BY DEF Down, WorldInv, Ends
<1>1. ASSUME UNCHANGED <<browser, item, req, marks, stored>>, told' = told \/ Down,
             open' \subseteq open, held' \subseteq held
      PROVE  WorldInv' /\ Grows
  BY <1>0, <1>1, WorldKept DEF WorldInv
<1>2. ASSUME UNCHANGED <<browser, item, req, open, stored>>, Down, marks' = <<>>, held' = {}
      PROVE  WorldInv' /\ Grows
  BY <1>0, <1>2, WorldKept, EmptySeq DEF WorldInv
<1>3. ASSUME NEW r \in Responses, Respond(r) PROVE WorldInv' /\ Grows
  <2>1. PICK u \in Urls, t \in open, k \in Kinds[r] :
           LET saved == k = "link" \/ (browser = "chrome" /\ Captures(<<t, u>>))
           IN  /\ req' = [req EXCEPT ![r] = [url |-> u, tab |-> t, kind |-> k]]
               /\ item' = [item EXCEPT ![r] = IF saved THEN "running" ELSE "shown"]
    BY <1>3 DEF Respond
  <2>2. PICK to \in {"running", "shown"} :
           /\ item' = [item EXCEPT ![r] = to]
           /\ browser = "firefox" /\ k # "link" => to = "shown"
    BY <2>1
  <2> QED BY <1>3, <2>1, <2>2, Received DEF Respond, session, ledger
<1>4. ASSUME NEW r \in Responses, NEW from \in SUBSET {"running", "rerun", "interrupted"},
             NEW to \in {"rerun", "complete", "interrupted"}, Download(r, from, to)
      PROVE  WorldInv' /\ Grows
  <2>1. r \in Seen /\ item[r] # "shown" BY <1>4 DEF Download, Seen
  <2> QED BY <1>4, <2>1, ItemChanges DEF Download, session, ledger, ItemStates
<1>5. ASSUME NEW r \in Responses, Complete(r) \/ Interrupt(r) \/ Resumed(r) PROVE WorldInv' /\ Grows
  BY <1>4, <1>5 DEF Complete, Interrupt, Resumed
<1>6. ASSUME NEW r \in Responses, Ask(r) PROVE WorldInv' /\ Grows
  BY <1>1, <1>6 DEF Ask, Keep, ledger
<1>7. ASSUME NEW r \in Responses, OpenNatively(r) PROVE WorldInv' /\ Grows
  BY <1>1, <1>7 DEF OpenNatively, Keep, ledger
<1>8. ASSUME NEW t \in Tabs, CloseTab(t) PROVE WorldInv' /\ Grows
  BY <1>1, <1>8 DEF CloseTab, ledger
<1>9. CASE StopIdle \/ Kill \/ Start \/ Switch \/ SetEnabled \/ Provision
  BY <1>1, <1>9 DEF StopIdle, Kill, Start, Switch, SetEnabled, Provision, world, session, ledger
<1>10. CASE Reload BY <1>2, <1>10 DEF Reload, world, ledger
<1>11. CASE UNCHANGED vars BY <1>1, <1>11 DEF vars, world, session, ledger
<1> QED BY <1>3, <1>5, <1>6, <1>7, <1>8, <1>9, <1>10, <1>11, MarksOfWorld, DeliveryOfWorld DEF Next

----------------------------------------------------------------------------
(* Files thrown away, and builds.                                               *)

Gone == {"removed", "erased"}
\* Why a download is gone: the bucket holds it, or the frame r it came to was too small.
HandedFor(d, r) == /\ req[r].kind = "small" /\ req[r].url = req[d].url
                   /\ \/ told[r] \cap {"handed", "cut"} # {}
                      \/ \E x \in runs : x.d = d /\ x.of = r /\ HandingBack(x)
Accounted(d) == req[d].url \in stored \/ \E r \in Responses : HandedFor(d, r)

\* A download goes by a delivery that knows its PDF stored or its frame too small, and that
\* delivery goes on to hand the frame back unless the worker stops.
LEMMA DiscardedInductive == ASSUME IInv, [Next]_vars PROVE DiscardedIsHeld'
<1> USE DEF IInv
<1>1. ASSUME stored \subseteq stored', \A r \in Responses : told[r] \subseteq told'[r],
             \A x \in runs : HandingBack(x) =>
                \/ \E y \in runs' : y.d = x.d /\ y.of = x.of /\ HandingBack(y)
                \/ told'[x.of] \cap {"handed", "cut"} # {},
             \A d \in Responses : item'[d] \in Gone =>
                \/ item[d] \in Gone
                \/ \E of \in Responses : Linked(d, of) /\ req[of].url \in stored
                \/ \E y \in runs' : y.d = d /\ Linked(d, y.of) /\ req[y.of].kind = "small" /\ HandingBack(y)
      PROVE  DiscardedIsHeld'
  <2> SUFFICES ASSUME NEW d \in Responses, item'[d] \in Gone PROVE Accounted(d)'
    BY DEF DiscardedIsHeld, Accounted, HandedFor, Gone
  <2>1. \A r \in Seen : req'[r] = req[r] BY WorldInductive DEF Grows
  <2>2. CASE item[d] \in Gone
    <3>1. d \in Seen BY <2>2 DEF Seen, Gone
    <3>2. req'[d] = req[d] /\ Accounted(d)
      BY <2>1, <2>2, <3>1 DEF DiscardedIsHeld, Accounted, HandedFor, Gone
    <3>3. CASE req[d].url \in stored BY <1>1, <3>2, <3>3 DEF Accounted
    <3>4. ASSUME NEW r \in Responses, HandedFor(d, r) PROVE HandedFor(d, r)'
      <4>1. r \in Seen BY <3>4 DEF HandedFor, WorldInv, Nothing
      <4>2. req'[r].kind = "small" /\ req'[r].url = req'[d].url BY <2>1, <3>2, <3>4, <4>1 DEF HandedFor
      <4>3. CASE told[r] \cap {"handed", "cut"} # {}
        <5>1. told'[r] \cap {"handed", "cut"} # {} BY <1>1, <4>3
        <5> QED BY <4>2, <5>1 DEF HandedFor
      <4>4. ASSUME NEW x \in runs, x.d = d, x.of = r, HandingBack(x) PROVE HandedFor(d, r)'
        BY <1>1, <4>2, <4>4 DEF HandedFor
      <4> QED BY <3>4, <4>3, <4>4 DEF HandedFor
    <3> QED BY <3>2, <3>3, <3>4 DEF Accounted
  <2>3. ASSUME NEW of \in Responses, Linked(d, of), req[of].url \in stored PROVE Accounted(d)'
    BY <1>1, <2>1, <2>3 DEF Linked, Accounted
  <2>4. ASSUME NEW y \in runs', y.d = d, Linked(d, y.of), req[y.of].kind = "small", HandingBack(y)
        PROVE  Accounted(d)'
    <3>1. y.of \in Responses /\ req'[y.of] = req[y.of] /\ req'[d] = req[d] /\ req[d].url = req[y.of].url
      BY <2>1, <2>4 DEF Linked, Seen
    <3>2. HandedFor(d, y.of)' BY <2>4, <3>1 DEF HandedFor
    <3> QED BY <3>1, <3>2 DEF Accounted
  <2> QED BY <1>1, <2>2, <2>3, <2>4
<1>2. ASSUME stored' = stored, told' = told, \A x \in runs : HandingBack(x) => x \in runs',
             \A d \in Responses : item'[d] \in Gone => item[d] \in Gone
      PROVE  DiscardedIsHeld'
  BY <1>1, <1>2
<1>3. ASSUME NEW run \in runs, NEW next, Step(run, next), next.d = run.d, next.of = run.of,
             stored \subseteq stored', \A r \in Responses : told[r] \subseteq told'[r],
             HandingBack(run) => HandingBack(next) \/ told'[run.of] \cap {"handed", "cut"} # {},
             \/ item' = item
             \/ /\ item' = [item EXCEPT ![run.d] = "removed"] \/ item' = [item EXCEPT ![run.d] = "erased"]
                /\ req[run.of].url \in stored \/ (req[run.of].kind = "small" /\ HandingBack(next))
      PROVE  DiscardedIsHeld'
  <2>1. run.d \in Responses /\ run.of \in Responses /\ Linked(run.d, run.of) BY DEF WorkInv, Runs, RunOK
  <2>2. next \in runs' /\ \A x \in runs : x = run \/ x \in runs' BY <1>3 DEF Step
  <2>3. \A x \in runs : HandingBack(x) =>
           \/ \E y \in runs' : y.d = x.d /\ y.of = x.of /\ HandingBack(y)
           \/ told'[x.of] \cap {"handed", "cut"} # {}
    BY <1>3, <2>2
  <2>4. ASSUME NEW d \in Responses, item'[d] \in Gone
        PROVE  \/ item[d] \in Gone
               \/ \E of \in Responses : Linked(d, of) /\ req[of].url \in stored
               \/ \E y \in runs' : y.d = d /\ Linked(d, y.of) /\ req[y.of].kind = "small" /\ HandingBack(y)
    <3>1. CASE item'[d] = item[d] BY <2>4, <3>1
    <3>2. CASE item'[d] # item[d]
      <4>1. d = run.d BY <1>3, <3>2 DEF WorldInv
      <4>2. req[run.of].url \in stored \/ (req[run.of].kind = "small" /\ HandingBack(next)) BY <1>3, <3>2
      <4> QED BY <1>3, <2>1, <2>2, <4>1, <4>2
    <3> QED BY <3>1, <3>2
  <2> QED BY <1>1, <1>3, <2>3, <2>4
<1>4. ASSUME NEW run \in runs, Deliver(run) PROVE DiscardedIsHeld'
  <2>1. run \in Runs /\ RunOK(run) /\ run.of \in Responses BY DEF WorkInv, Runs
  <2>2. ASSUME NEW pc, NEW n \in {[run EXCEPT !.pc = pc]} PROVE n.d = run.d /\ n.of = run.of /\ n.pc = pc /\ n.out = run.out
    BY <2>1 DEF Runs
  <2>3. ASSUME NEW pc, NEW out, NEW n \in {[run EXCEPT !.out = out, !.pc = pc]}
        PROVE  n.d = run.d /\ n.of = run.of /\ n.pc = pc /\ n.out = out
    BY <2>1 DEF Runs
  <2>4. told \in [Responses -> SUBSET Ends] BY DEF WorldInv
  <2>5. \A what : Tell(run.of, what) => \A r \in Responses : told[r] \subseteq told'[r]
    BY <2>1, <2>4 DEF Tell
  <2>6. ASSUME ~HandingBack(run), item' = item, stored \subseteq stored',
               \A r \in Responses : told[r] \subseteq told'[r],
               \/ Throw(run) \/ \E pc : Goto(run, pc) \/ \E out : Settle(run, out, pc)
        PROVE  DiscardedIsHeld'
    <3>1. CASE Throw(run) BY <1>1, <2>6, <3>1 DEF Throw
    <3>2. ASSUME NEW pc, Goto(run, pc) PROVE DiscardedIsHeld'
      BY <1>3, <2>2, <2>6, <3>2 DEF Goto
    <3>3. ASSUME NEW pc, NEW out, Settle(run, out, pc) PROVE DiscardedIsHeld'
      BY <1>3, <2>3, <2>6, <3>3 DEF Settle
    <3> QED BY <2>6, <3>1, <3>2, <3>3
  <2>7. CASE Search(run)
    <3>1. ~HandingBack(run) /\ item' = item /\ stored' = stored /\ told' = told
      BY <2>7 DEF Search, At, HandingBack, Keep, ledger
    <3>2. CASE Throw(run) \/ Free(run) BY <2>6, <3>1, <3>2 DEF Free
    <3>3. ASSUME NEW kind, NEW out, NEW pc, Step(run, [run EXCEPT !.kind = kind, !.out = out, !.pc = pc])
          PROVE  DiscardedIsHeld'
      <4> DEFINE next == [run EXCEPT !.kind = kind, !.out = out, !.pc = pc]
      <4>1. next.d = run.d /\ next.of = run.of BY <2>1 DEF Runs
      <4> HIDE DEF next
      <4>2. Step(run, next) BY <3>3 DEF next
      <4> QED BY <1>3, <3>1, <4>1, <4>2
    <3> QED BY <2>7, <3>2, <3>3 DEF Search
  <2>8. CASE Check(run)
    <3>1. ~HandingBack(run) /\ item' = item /\ stored' = stored /\ told' = told
      BY <2>8 DEF Check, At, HandingBack, Keep, ledger
    <3> QED BY <2>6, <2>8, <3>1 DEF Check
  <2>9. CASE Post(run)
    <3>1. ~HandingBack(run) /\ item' = item /\ stored \subseteq stored' /\ told' = told
      BY <2>9 DEF Post, At, HandingBack, Keep
    <3> QED BY <2>6, <2>9, <3>1 DEF Post
  <2>10. CASE RemoveFile(run)
    <3>1. run.pc = "remove" /\ ~HandingBack(run) /\ stored' = stored /\ told' = told
      BY <2>10 DEF RemoveFile, At, HandingBack, Keep, ledger
    <3>2. CASE Throw(run) /\ UNCHANGED item BY <2>6, <3>1, <3>2
    <3>3. CASE Goto(run, "erase") /\ item' = [item EXCEPT ![run.d] = "removed"]
      <4> DEFINE next == [run EXCEPT !.pc = "erase"]
      <4>1. next.d = run.d /\ next.of = run.of /\ next.pc = "erase" /\ next.out = run.out BY <2>2
      <4> HIDE DEF next
      <4>2. Step(run, next) BY <3>3 DEF Goto, next
      <4>3. req[run.of].url \in stored \/ (req[run.of].kind = "small" /\ HandingBack(next))
        BY <2>1, <3>1, <4>1 DEF RunOK, HandingBack
      <4> QED BY <1>3, <3>1, <3>3, <4>1, <4>2, <4>3
    <3> QED BY <2>10, <3>2, <3>3 DEF RemoveFile
  <2>11. CASE Erase(run)
    <3>1. /\ run.pc = "erase" /\ stored' = stored /\ told' = told /\ item' = [item EXCEPT ![run.d] = "erased"]
      BY <2>11 DEF Erase, At, Keep, ledger
    <3>2. CASE run.out = "small"
      <4> DEFINE next == [run EXCEPT !.pc = "hand"]
      <4>1. next.d = run.d /\ next.of = run.of /\ next.pc = "hand" /\ next.out = run.out BY <2>2
      <4> HIDE DEF next
      <4>2. Step(run, next) BY <2>11, <3>2 DEF Erase, Goto, next
      <4>3. req[run.of].kind = "small" /\ HandingBack(next) BY <2>1, <3>2, <4>1 DEF RunOK, HandingBack
      <4> QED BY <1>3, <3>1, <4>1, <4>2, <4>3
    <3>3. ASSUME run.out # "small", NEW pc, Goto(run, pc) PROVE DiscardedIsHeld'
      <4> DEFINE next == [run EXCEPT !.pc = pc]
      <4>1. next.d = run.d /\ next.of = run.of BY <2>2
      <4> HIDE DEF next
      <4>2. Step(run, next) BY <3>3 DEF Goto, next
      <4>3. req[run.of].url \in stored /\ ~HandingBack(run) BY <2>1, <3>1, <3>3 DEF RunOK, HandingBack
      <4> QED BY <1>3, <3>1, <4>1, <4>2, <4>3
    <3> QED BY <2>11, <3>2, <3>3 DEF Erase, Free
  <2>12. CASE Hand(run)
    <3>1. item' = item /\ stored' = stored /\ Tell(run.of, "handed") /\ Goto(run, "show")
      BY <2>12 DEF Hand, Keep
    <3>2. told'[run.of] \cap {"handed", "cut"} # {} BY <2>1, <2>4, <3>1 DEF Tell
    <3> DEFINE next == [run EXCEPT !.pc = "show"]
    <3>3. next.d = run.d /\ next.of = run.of BY <2>2
    <3> HIDE DEF next
    <3>4. Step(run, next) BY <3>1 DEF Goto, next
    <3> QED BY <1>3, <2>5, <3>1, <3>2, <3>3, <3>4
  <2>13. CASE Show(run)
    <3>1. ~HandingBack(run) /\ item' = item /\ stored' = stored BY <2>13 DEF Show, At, HandingBack, Keep
    <3>2. Throw(run) \/ Goto(run, "release") BY <2>13 DEF Show, Free
    <3>3. \A r \in Responses : told[r] \subseteq told'[r] BY <2>5, <2>13 DEF Show
    <3> QED BY <2>6, <3>1, <3>2, <3>3
  <2>14. CASE Report(run)
    <3>1. ~HandingBack(run) /\ item' = item /\ stored' = stored BY <2>14 DEF Report, At, HandingBack, Keep
    <3>2. Throw(run) \/ Goto(run, "release") BY <2>14 DEF Report, Free
    <3>3. \A r \in Responses : told[r] \subseteq told'[r] BY <2>5, <2>14 DEF Report
    <3> QED BY <2>6, <3>1, <3>2, <3>3
  <2> QED BY <1>4, <2>7, <2>8, <2>9, <2>10, <2>11, <2>12, <2>13, <2>14 DEF Deliver
<1>5. ASSUME NEW r \in Responses, Respond(r) PROVE DiscardedIsHeld'
  <2>1. PICK to \in {"running", "shown"} : item' = [item EXCEPT ![r] = to] BY <1>5 DEF Respond
  <2> QED BY <1>2, <1>5, <2>1 DEF Respond, ledger, WorldInv, Gone
<1>6. ASSUME NEW r \in Responses, Complete(r) \/ Interrupt(r) \/ Resumed(r) PROVE DiscardedIsHeld'
  <2>1. PICK to \in {"rerun", "complete", "interrupted"} : item' = [item EXCEPT ![r] = to]
    BY <1>6 DEF Complete, Interrupt, Resumed, Download
  <2> QED BY <1>2, <1>6, <2>1 DEF Complete, Interrupt, Resumed, Download, ledger, WorldInv, Gone
<1>7. ASSUME NEW r \in Responses, Ask(r) \/ OpenNatively(r) PROVE DiscardedIsHeld'
  BY <1>2, <1>7 DEF Ask, OpenNatively, Keep, ledger
<1>8. ASSUME NEW t \in Tabs, CloseTab(t) PROVE DiscardedIsHeld'
  BY <1>2, <1>8 DEF CloseTab, worker, ledger
<1>9. CASE Exclusive
  <2> DEFINE q == Head(queue)
  <2>1. up /\ queue # <<>> /\ UNCHANGED <<item, stored, told>> BY <1>9 DEF Exclusive, world, ledger
  <2>2. q \in Sound BY <2>1, HeadTailProperties DEF WorkInv, Waiting
  <2>3. CASE q.op \in {"mark", "claim", "write"} BY <1>2, <1>9, <2>1, <2>3 DEF Exclusive
  <2>4. CASE q.op = "begin"
    <3>1. Begin(q.d) BY <1>9, <2>4 DEF Exclusive
    <3> QED BY <1>2, <2>1, <3>1 DEF Begin
  <2>5. CASE q.op = "resume"
    <3>1. Resume BY <1>9, <2>5 DEF Exclusive
    <3> QED BY <1>2, <2>1, <3>1 DEF Resume
  <2>6. CASE q.op = "release"
    <3>1. Release(q.d) BY <1>9, <2>6 DEF Exclusive
    <3> QED BY <1>2, <2>1, <3>1 DEF Release, HandingBack
  <2> QED BY <2>2, <2>3, <2>4, <2>5, <2>6 DEF Sound, Ops, OpNames
<1>10. CASE StopIdle \/ Kill \/ Reload
  <2>1. Down /\ stored' = stored /\ item' = item BY <1>10 DEF StopIdle, Kill, Reload, world
  <2>2. told \in [Responses -> SUBSET Ends] BY DEF WorldInv
  <2>3. \A r \in Responses : told[r] \subseteq told'[r] BY <2>1, <2>2 DEF Down
  <2>4. \A x \in runs : HandingBack(x) => told'[x.of] \cap {"handed", "cut"} # {}
    <3> SUFFICES ASSUME NEW x \in runs, HandingBack(x) PROVE "cut" \in told'[x.of] OBVIOUS
    <3>1. x.of \in Responses /\ CutShort(x.of) BY DEF CutShort, WorkInv, Runs
    <3> QED BY <2>1, <3>1 DEF Down
  <2> QED BY <1>1, <2>1, <2>3, <2>4
<1>11. CASE Start \/ Switch \/ SetEnabled \/ Provision \/ UNCHANGED vars
  BY <1>2, <1>11 DEF Start, Switch, SetEnabled, Provision, vars, world, worker, ledger
<1> QED BY <1>4, <1>5, <1>6, <1>7, <1>8, <1>9, <1>10, <1>11 DEF Next

LEMMA BuildInductive == ASSUME IInv, [Next]_vars PROVE BuildInv'
<1> USE DEF IInv
<1>1. ASSUME UNCHANGED <<browser, stale, reloaded>>,
             count' = count \/ \E f \in {"kills", "retries", "switches"} : count' = [count EXCEPT ![f] = @ + 1]
      PROVE  BuildInv'
  BY <1>1 DEF BuildInv
<1>2. CASE Provision
  <2>1. /\ count' = [count EXCEPT !.updates = @ + 1] /\ browser' = browser /\ stale' /\ ~reloaded'
        /\ stale' \in BOOLEAN /\ reloaded' \in BOOLEAN
    BY <1>2 DEF Provision, Bounded, world
  <2>2. count'.updates = count.updates + 1 /\ count'.reloads = count.reloads BY <2>1 DEF BuildInv
  <2> QED BY <2>1, <2>2 DEF BuildInv
<1>3. CASE Reload
  <2>1. /\ count' = [count EXCEPT !.reloads = @ + 1] /\ browser' = browser /\ reloaded' = TRUE
        /\ stale' \in BOOLEAN /\ stale /\ (browser = "chrome" => ~reloaded)
    BY <1>3 DEF Reload, world
  <2>2. count'.updates = count.updates /\ count'.reloads = count.reloads + 1 BY <2>1 DEF BuildInv
  <2> QED BY <2>1, <2>2 DEF BuildInv
<1>4. ASSUME NEW run \in runs, Deliver(run) PROVE BuildInv'
  BY <1>1, <1>4 DEF Deliver, Search, Check, Post, RemoveFile, Erase, Hand, Show, Report, Keep, build
<1>5. ASSUME NEW r \in Responses, Respond(r) \/ Complete(r) \/ Interrupt(r) \/ Resumed(r) \/ Ask(r) \/ OpenNatively(r)
      PROVE  BuildInv'
  BY <1>1, <1>5 DEF Respond, Complete, Interrupt, Resumed, Ask, OpenNatively, Download, Ended, Bounded, Keep, build
<1>6. ASSUME NEW t \in Tabs, CloseTab(t) PROVE BuildInv'
  BY <1>1, <1>6 DEF CloseTab, build
<1>7. CASE Exclusive \/ StopIdle \/ Kill \/ Start \/ Switch \/ SetEnabled \/ UNCHANGED vars
  BY <1>1, <1>7 DEF Exclusive, StopIdle, Kill, Start, Switch, SetEnabled, Bounded, vars, world, build
<1> QED BY <1>2, <1>3, <1>4, <1>5, <1>6, <1>7 DEF Next

----------------------------------------------------------------------------
(* What waits, is claimed and is delivered, where no delivery moves.            *)

\* What is known of claims, deliveries and waiting operations lasts while claims stay and
\* deliveries only end.
LEMMA Lasts ==
    ASSUME IInv, Grows, UNCHANGED <<claims, posts>>, stored \subseteq stored', runs' \subseteq runs
    PROVE  /\ Sound \subseteq Sound' /\ \A d \in Responses : ClaimOK(d)'
           /\ runs' \subseteq Runs /\ OneDelivery' /\ \A x \in runs' : RunOK(x)'
<1> USE DEF IInv
<1>1. ASSUME NEW d \in Responses PROVE ClaimOK(d)'
  <2>1. ClaimOK(d) BY DEF WorkInv
  <2>2. claims[d] # None => Linked(d, claims[d].of)' /\ item'[d] # "shown"
    BY <2>1, LinkedKept DEF ClaimOK
  <2>3. d \notin Seen' => d \notin Seen BY DEF Grows
  <2> QED BY <2>1, <2>2, <2>3 DEF ClaimOK
<1>2. ASSUME NEW x \in runs' PROVE RunOK(x)'
  <2>1. x \in runs /\ RunOK(x) BY DEF WorkInv
  <2>2. /\ Linked(x.d, x.of)' /\ x.d \in Seen /\ x.of \in Seen
        /\ (item'[x.d] = "shown" <=> item[x.d] = "shown")
    BY <2>1, LinkedKept DEF RunOK, Linked
  <2>3. req'[x.of] = req[x.of] BY <2>2 DEF Grows
  <2> QED BY <2>1, <2>2, <2>3 DEF RunOK
<1>3. ASSUME NEW q \in Sound PROVE q \in Sound'
  <2>1. q \in Ops /\ WaitingOK(q) BY DEF Sound
  <2>2. q.op # "resume" => Linked(q.d, q.of)' /\ (item'[q.d] = "shown" <=> item[q.d] = "shown")
    BY <2>1, LinkedKept DEF WaitingOK
  <2>3. q.op \in Claiming => Unclaimed(q.d)' BY <2>1 DEF WaitingOK, Unclaimed
  <2>4. q.op = "release" => Releasing(q.d)' BY <2>1 DEF WaitingOK, Releasing
  <2>5. q.op = "resume" => \A x \in runs' : x.kind = "page" BY <2>1 DEF WaitingOK
  <2>6. WaitingOK(q)' BY <2>1, <2>2, <2>3, <2>4, <2>5 DEF WaitingOK, Claiming
  <2> QED BY <2>1, <2>6 DEF Sound
<1>4. OneDelivery' BY DEF WorkInv, OneDelivery
<1> QED BY <1>1, <1>2, <1>3, <1>4 DEF WorkInv

\* Events reach the worker's queue or wait for it, in their order.
LEMMA Raised ==
    ASSUME IInv, NEW evs \in Seq(Ops), Raise(evs), UNCHANGED <<up, runs>>,
           \A i \in 1..Len(evs) : evs[i].op \notin {"resume", "release"}
    PROVE  /\ Waiting' = Waiting \o evs
           /\ up' => events' = <<>>
           /\ ~up' => /\ queue' = <<>> /\ runs' = {}
                      /\ \A i \in 1..Len(events') : events'[i].op \notin {"resume", "release"}
<1> USE DEF IInv
<1>1. CASE up BY <1>1 DEF Raise, Waiting, WorkInv
<1>2. CASE ~up
  <2>1. events \in Seq(Sound) BY <1>2 DEF WorkInv, Waiting
  <2>2. events \in Seq(Ops) BY <2>1, SeqMonotonic DEF Sound
  <2>3. events' = events \o evs /\ queue' = queue /\ up' = up BY <1>2 DEF Raise
  <2>4. \A i \in 1..Len(events') : \/ i \in 1..Len(events) /\ events'[i] = events[i]
                                   \/ i - Len(events) \in 1..Len(evs) /\ events'[i] = evs[i - Len(events)]
    BY <2>2, <2>3, ConcatProperties, LenProperties
  <2>5. \A i \in 1..Len(events') : events'[i].op \notin {"resume", "release"}
    BY <1>2, <2>4 DEF WorkInv
  <2> QED BY <1>2, <2>3, <2>5 DEF WorkInv, Waiting
<1> QED BY <1>1, <1>2

\* A calm step keeps WorkInv if it leaves sound what waits.
LEMMA Calm ==
    ASSUME IInv, Grows, UNCHANGED <<claims, posts>>, stored \subseteq stored', runs' \subseteq runs,
           Waiting' \in Seq(Sound'), Shape(Waiting)', up' \in BOOLEAN,
           up' => events' = <<>>,
           ~up' => /\ queue' = <<>> /\ runs' = {}
                   /\ \A i \in 1..Len(events') : events'[i].op \notin {"resume", "release"}
    PROVE  WorkInv'
BY Lasts DEF IInv, WorkInv, HandedOnRarely

\* A response is marked and its download claimed, each once.
LEMMA RespondWork == ASSUME IInv, NEW r \in Responses, Respond(r) PROVE WorkInv'
<1> USE DEF IInv
<1>1. WorldInv' /\ Grows BY WorldInductive DEF Next
<1>2. /\ UNCHANGED <<claims, posts, stored, runs, up>> /\ r \notin Seen
  BY DEF Respond, session, ledger, Seen
<1>3. /\ Sound \subseteq Sound'
  BY <1>1, <1>2, Lasts
<1>4. PICK a \in BOOLEAN, b \in BOOLEAN :
          /\ Raise((IF a THEN <<>> ELSE <<Operation("mark", r)>>) \o
                   (IF b THEN <<Operation("claim", r)>> ELSE <<>>))
          /\ item' = [item EXCEPT ![r] = IF b THEN "running" ELSE "shown"]
  BY DEF Respond
<1> DEFINE ma == IF a THEN <<>> ELSE <<Operation("mark", r)>>
           cl == IF b THEN <<Operation("claim", r)>> ELSE <<>>
<1>5. /\ item'[r] = IF b THEN "running" ELSE "shown"
      /\ r \in Seen' /\ Linked(r, r)'
  BY <1>4 DEF WorldInv, Seen, Linked
<1>6. /\ Operation("mark", r) \in Sound'
      /\ b => Operation("claim", r) \in Sound'
  <2>1. claims[r] = None /\ posts[r] = 0 BY <1>2 DEF WorkInv, ClaimOK, Linked
  <2>2. \A x \in runs : x.d # r BY <1>2 DEF WorkInv, RunOK, Linked
  <2>3. Unclaimed(r)' BY <1>2, <2>1, <2>2 DEF Unclaimed
  <2> QED BY <1>5, <2>3 DEF Sound, Ops, OpNames, Operation, WaitingOK, Claiming
<1>7. /\ ma \in Seq(Sound') /\ Len(ma) <= 1 /\ \A i \in 1..Len(ma) : ma[i] = Operation("mark", r)
      /\ cl \in Seq(Sound') /\ Len(cl) <= 1 /\ \A i \in 1..Len(cl) : cl[i] = Operation("claim", r)
  <2>1. a \/ ma = <<Operation("mark", r)>> OBVIOUS
  <2>2. ~b \/ cl = <<Operation("claim", r)>> OBVIOUS
  <2> QED BY <1>6, <2>1, <2>2
<1>8. Waiting \in Seq(Sound) /\ Waiting \in Seq(Sound') /\ Shape(Waiting)
  BY <1>3, SeqMonotonic DEF WorkInv
<1>9. \A j \in 1..Len(Waiting) : Waiting[j].op \in Claiming \cup {"release"} => Waiting[j].d # r
  <2>1. \A j \in 1..Len(Waiting) : WaitingOK(Waiting[j]) BY <1>8, ElementOfSeq DEF Sound
  <2> QED BY <1>2, <2>1 DEF WaitingOK, Linked, Claiming
<1> HIDE DEF ma, cl
<1>10. Waiting \o ma \in Seq(Sound') /\ Shape(Waiting \o ma)
  <2>1. \A i \in 1..Len(ma) : ma[i].op = "mark" BY <1>7 DEF Operation
  <2>2. \A i \in 1..Len(ma) : ma[i].op # "resume" /\ ma[i].op \notin Claiming \cup {"release"}
    BY <2>1 DEF Claiming
  <2>3. \A i \in 1..Len(ma) :
           /\ ma[i].op # "resume"
           /\ \A j \in 1..Len(Waiting) :
                 /\ ma[i].op = "release" => Waiting[j].op # "resume"
                 /\ Waiting[j].d = ma[i].d =>
                       /\ ma[i].op \in Claiming \cup {"release"} => Waiting[j].op \notin Claiming
                       /\ ma[i].op \in Claiming => Waiting[j].op # "release"
    BY <2>2 DEF Claiming
  <2> QED BY <1>7, <1>8, <2>3, ShapeMore
<1>11. \A j \in 1..Len(Waiting \o ma) :
          (Waiting \o ma)[j].op \in Claiming \cup {"release"} => (Waiting \o ma)[j].d # r
  <2>1. \A j \in 1..Len(Waiting \o ma) :
           \/ j \in 1..Len(Waiting) /\ (Waiting \o ma)[j] = Waiting[j]
           \/ (Waiting \o ma)[j] = Operation("mark", r)
    <3>1. /\ Len(Waiting \o ma) = Len(Waiting) + Len(ma) /\ Len(Waiting) \in Nat /\ Len(ma) \in Nat
          /\ \A j \in 1..Len(Waiting) + Len(ma) :
                (Waiting \o ma)[j] = IF j <= Len(Waiting) THEN Waiting[j] ELSE ma[j - Len(Waiting)]
      BY <1>7, <1>8, ConcatProperties, LenProperties
    <3> QED BY <1>7, <3>1
  <2> QED BY <1>9, <2>1 DEF Operation, Claiming
<1>12. (Waiting \o ma) \o cl \in Seq(Sound') /\ Shape((Waiting \o ma) \o cl)
  <2> DEFINE v == Waiting \o ma
  <2>1. \A i \in 1..Len(cl) :
          /\ cl[i].op # "resume"
          /\ \A j \in 1..Len(v) :
                /\ cl[i].op = "release" => v[j].op # "resume"
                /\ v[j].d = cl[i].d =>
                      /\ cl[i].op \in Claiming \cup {"release"} => v[j].op \notin Claiming
                      /\ cl[i].op \in Claiming => v[j].op # "release"
    BY <1>7, <1>11 DEF Operation, Claiming
  <2>2. v \in Seq(Sound') /\ Shape(v) BY <1>10
  <2> HIDE DEF v
  <2>3. v \o cl \in Seq(Sound') /\ Shape(v \o cl) BY <1>7, <2>1, <2>2, ShapeMore
  <2> QED BY <2>3 DEF v
<1>13. (Waiting \o ma) \o cl = Waiting \o (ma \o cl)
  BY <1>7, <1>8, ConcatAssociative
<1>14. /\ ma \o cl \in Seq(Ops) /\ \A i \in 1..Len(ma \o cl) : (ma \o cl)[i].op \notin {"resume", "release"}
  <2>1. ma \in Seq(Ops) /\ cl \in Seq(Ops) BY <1>7, SeqMonotonic DEF Sound
  <2>2. /\ ma \o cl \in Seq(Ops) /\ Len(ma \o cl) = Len(ma) + Len(cl) /\ Len(ma) \in Nat /\ Len(cl) \in Nat
        /\ \A j \in 1..Len(ma) + Len(cl) : (ma \o cl)[j] = IF j <= Len(ma) THEN ma[j] ELSE cl[j - Len(ma)]
    BY <2>1, ConcatProperties, LenProperties
  <2> QED BY <1>7, <2>2 DEF Operation
<1>15. Raise(ma \o cl) BY <1>4 DEF ma, cl
<1>16. Waiting' = (Waiting \o ma) \o cl BY <1>2, <1>13, <1>14, <1>15, Raised
<1> QED BY <1>1, <1>2, <1>12, <1>14, <1>15, <1>16, Calm, Raised DEF WorkInv

LEMMA EmptyShape == ASSUME NEW S PROVE <<>> \in Seq(S) /\ Shape(<<>>)
BY EmptySeq DEF Shape

\* A download that ends raises one event.
LEMMA DownloadWork ==
    ASSUME IInv, NEW r \in Responses, Complete(r) \/ Interrupt(r) \/ Resumed(r) PROVE WorkInv'
<1> USE DEF IInv
<1>1. WorldInv' /\ Grows BY WorldInductive DEF Next
<1>2. /\ UNCHANGED <<claims, posts, stored, runs, up>> /\ r \in Seen /\ item'[r] # "shown"
  BY DEF Complete, Interrupt, Resumed, Download, session, ledger, Seen, WorldInv
<1>3. Sound \subseteq Sound' BY <1>1, <1>2, Lasts
<1>4. Waiting \in Seq(Sound') /\ Shape(Waiting) BY <1>3, SeqMonotonic DEF WorkInv
<1>5. CASE UNCHANGED <<events, queue>>
  <2>1. Waiting' = Waiting BY <1>2, <1>5 DEF Waiting
  <2> QED BY <1>1, <1>2, <1>4, <1>5, <2>1, Calm DEF WorkInv
<1>6. CASE Raise(<<Operation("begin", r)>>)
  <2> DEFINE e == <<Operation("begin", r)>>
  <2>1. Operation("begin", r) \in Sound'
    <3>1. Linked(r, r)' BY <1>1, <1>2 DEF Linked, Grows
    <3> QED BY <1>2, <3>1 DEF Sound, Ops, OpNames, Operation, WaitingOK, Claiming
  <2>2. e \in Seq(Sound') /\ e \in Seq(Ops) /\ Len(e) <= 1 /\ \A i \in 1..Len(e) : e[i] = Operation("begin", r)
    BY <2>1 DEF Sound
  <2> HIDE DEF e
  <2>3. \A i \in 1..Len(e) : e[i].op = "begin" BY <2>2 DEF Operation
  <2>4. Waiting \o e \in Seq(Sound') /\ Shape(Waiting \o e)
    <3>1. \A i \in 1..Len(e) :
            /\ e[i].op # "resume"
            /\ \A j \in 1..Len(Waiting) :
                  /\ e[i].op = "release" => Waiting[j].op # "resume"
                  /\ Waiting[j].d = e[i].d =>
                        /\ e[i].op \in Claiming \cup {"release"} => Waiting[j].op \notin Claiming
                        /\ e[i].op \in Claiming => Waiting[j].op # "release"
      BY <2>3 DEF Claiming
    <3> QED BY <1>4, <2>2, <3>1, ShapeMore
  <2>5. Raise(e) BY <1>6 DEF e
  <2>6. Waiting' = Waiting \o e BY <1>2, <2>2, <2>3, <2>5, Raised
  <2> QED BY <1>1, <1>2, <2>2, <2>3, <2>4, <2>5, <2>6, Calm, Raised DEF WorkInv
<1> QED BY <1>5, <1>6 DEF Complete, Interrupt, Resumed, Ended

\* The user, the switch and the builds leave the work; a worker that stops drops it, and one
\* that starts takes the claims up first.
LEMMA LifeWork ==
    ASSUME IInv,
           \/ \E t \in Tabs : CloseTab(t)
           \/ \E r \in Responses : OpenNatively(r)
           \/ StopIdle \/ Kill \/ Start \/ Switch \/ SetEnabled \/ Provision \/ Reload \/ UNCHANGED vars
    PROVE  WorkInv'
<1> USE DEF IInv
<1>1. WorldInv' /\ Grows BY WorldInductive DEF Next
<1>2. ASSUME UNCHANGED <<claims, posts, stored, runs, up, queue, events>> PROVE WorkInv'
  <2>1. Sound \subseteq Sound' BY <1>1, <1>2, Lasts
  <2>2. Waiting' = Waiting /\ Waiting \in Seq(Sound') BY <1>2, <2>1, SeqMonotonic DEF Waiting, WorkInv
  <2> QED BY <1>1, <1>2, <2>2, Calm DEF WorkInv
<1>3. ASSUME up, Down, UNCHANGED <<claims, posts, stored, events>> PROVE WorkInv'
  <2>1. up' = FALSE /\ queue' = <<>> /\ runs' = {} /\ events' = <<>> BY <1>3 DEF Down, WorkInv
  <2>2. Waiting' = <<>> /\ \A i \in 1..Len(events') : events'[i].op \notin {"resume", "release"}
    BY <2>1 DEF Waiting
  <2>3. Waiting' \in Seq(Sound') /\ Shape(Waiting)' BY <2>2, EmptyShape
  <2> QED BY <1>1, <1>3, <2>1, <2>2, <2>3, Calm
<1>4. CASE Reload
  <2>1. /\ up' = FALSE /\ queue' = <<>> /\ runs' = {} /\ events' = <<>> /\ UNCHANGED <<posts, item>>
        /\ claims' = [d \in Responses |-> None]
    BY <1>4 DEF Reload, Down, world, ledger
  <2>2. Waiting' = <<>> /\ \A i \in 1..Len(events') : events'[i].op \notin {"resume", "release"}
    BY <2>1 DEF Waiting
  <2>3. \A d \in Responses : ClaimOK(d)' BY <2>1 DEF ClaimOK, WorkInv, Seen
  <2>4. Waiting' \in Seq(Sound') /\ Shape(Waiting)' BY <2>2, EmptyShape
  <2> QED BY <2>1, <2>2, <2>3, <2>4 DEF WorkInv, HandedOnRarely, OneDelivery, Claims
<1>5. CASE Start
  <2>1. /\ ~up /\ up' = TRUE /\ events' = <<>> /\ UNCHANGED <<claims, posts, stored, runs>>
        /\ queue' = <<Operation("resume", 0)>> \o events
    BY <1>5 DEF Start, session, ledger
  <2>2. Sound \subseteq Sound' BY <1>1, <2>1, Lasts
  <2>3. Waiting = events /\ Waiting' = <<Operation("resume", 0)>> \o events BY <2>1 DEF Waiting
  <2>4. Operation("resume", 0) \in Sound' /\ Operation("resume", 0).op = "resume"
    BY <2>1 DEF Sound, Ops, OpNames, Operation, WaitingOK, Claiming, WorkInv
  <2>5. events \in Seq(Sound') /\ Shape(events) BY <2>2, <2>3, SeqMonotonic DEF WorkInv
  <2>6. Waiting' \in Seq(Sound') /\ Shape(Waiting)'
    BY <2>1, <2>3, <2>4, <2>5, ShapeFirst DEF WorkInv
  <2> QED BY <1>1, <2>1, <2>6, Calm
<1>6. CASE StopIdle BY <1>3, <1>6 DEF StopIdle, session, ledger
<1>7. CASE Kill BY <1>3, <1>7 DEF Kill, session, ledger
<1>8. ASSUME NEW t \in Tabs, CloseTab(t) PROVE WorkInv'
  BY <1>2, <1>8 DEF CloseTab, worker, ledger
<1>9. ASSUME NEW r \in Responses, OpenNatively(r) PROVE WorkInv'
  BY <1>2, <1>9 DEF OpenNatively, Keep, ledger
<1>10. CASE Switch \/ SetEnabled \/ Provision \/ UNCHANGED vars
  BY <1>2, <1>10 DEF Switch, SetEnabled, Provision, vars, worker, session, ledger
<1> QED BY <1>4, <1>5, <1>6, <1>7, <1>8, <1>9, <1>10

----------------------------------------------------------------------------
(* The operations under the mutex.                                              *)

\* An operation done leaves sound those behind it, where it does not spoil what they will find.
LEMMA Done ==
    ASSUME IInv, up, queue # <<>>, UNCHANGED <<item, req, up, events>>, queue' = Tail(queue),
           \A i \in 2..Len(queue), t \in Ops : t = queue[i] =>
              /\ t.op \in Claiming => Unclaimed(t.d)'
              /\ t.op = "release" => Releasing(t.d)'
    PROVE  Waiting' \in Seq(Sound') /\ Shape(Waiting)' /\ up' \in BOOLEAN /\ (up' => events' = <<>>)
<1> USE DEF IInv
<1>1. Waiting = queue /\ queue \in Seq(Sound) /\ Shape(queue) BY DEF Waiting, WorkInv
<1>2. /\ Tail(queue) \in Seq(Sound) /\ Shape(Tail(queue)) /\ Len(queue) \in Nat
      /\ Len(Tail(queue)) = Len(queue) - 1
      /\ \A i \in 1..Len(Tail(queue)) : Tail(queue)[i] = queue[i + 1] /\ Tail(queue)[i].op # "resume"
  BY <1>1, ShapeTail, HeadTailProperties, LenProperties
<1>3. ASSUME NEW i \in 1..Len(Tail(queue)), NEW t, t = Tail(queue)[i] PROVE t \in Sound'
  <2>1. i + 1 \in 2..Len(queue) /\ i + 1 \in 1..Len(queue) /\ t = queue[i + 1] /\ t.op # "resume"
    BY <1>2, <1>3
  <2>2. t \in Ops /\ WaitingOK(t) BY <1>1, <2>1, ElementOfSeq DEF Sound
  <2>3. (t.op \in Claiming => Unclaimed(t.d)') /\ (t.op = "release" => Releasing(t.d)') BY <2>1, <2>2
  <2>4. Seen' = Seen BY DEF Seen
  <2>5. t.op # "resume" => Linked(t.d, t.of)' BY <2>2, <2>4 DEF WaitingOK, Linked
  <2>6. WaitingOK(t)' BY <2>1, <2>2, <2>3, <2>5 DEF WaitingOK
  <2> QED BY <2>2, <2>6 DEF Sound
<1>4. Tail(queue) \in Seq(Sound') BY <1>2, <1>3, Retype
<1>5. Waiting' = Tail(queue) BY DEF Waiting
<1> QED BY <1>2, <1>4, <1>5 DEF WorkInv

\* The operation that holds the mutex is sound, and of those behind it none claims or releases
\* what it claims.
LEMMA First ==
    ASSUME IInv, Exclusive
    PROVE  LET q == Head(queue)
           IN  /\ up /\ queue # <<>> /\ q \in Ops /\ WaitingOK(q)
               /\ UNCHANGED <<item, req, up, events, posts, stored>>
               /\ \A i \in 2..Len(queue) :
                     /\ queue[i] \in Ops /\ WaitingOK(queue[i])
                     /\ q.op = "resume" => queue[i].op # "release"
                     /\ q.op \in Claiming /\ queue[i].op \in Claiming \cup {"release"} => queue[i].d # q.d
<1> USE DEF IInv
<1>1. up /\ queue # <<>> /\ UNCHANGED <<item, req, up, events, posts, stored>>
  BY DEF Exclusive, world, ledger
<1>2. queue \in Seq(Sound) /\ Shape(queue) BY <1>1 DEF Waiting, WorkInv
<1>3. Len(queue) \in Nat \ {0} /\ Head(queue) = queue[1] /\ \A i \in 1..Len(queue) : queue[i] \in Sound
  BY <1>1, <1>2, HeadTailProperties, EmptySeq, LenProperties, ElementOfSeq
<1>4. 1 \in 1..Len(queue) /\ \A i \in 2..Len(queue) : i \in 1..Len(queue) /\ i # 1 BY <1>3
<1> QED BY <1>1, <1>2, <1>3, <1>4 DEF Shape, Sound

LEMMA MarkClaimWork ==
    ASSUME IInv, Exclusive, Head(queue).op \in {"mark", "claim"} PROVE WorkInv'
<1> USE DEF IInv
<1> DEFINE q == Head(queue)
<1>1. WorldInv' /\ Grows BY WorldInductive DEF Next
<1>2. UNCHANGED <<claims, runs, posts, stored, up, events>> /\ up /\ queue # <<>> /\ WaitingOK(q) /\ q \in Ops
  BY First DEF Exclusive
<1>3. Sound \subseteq Sound' BY <1>1, <1>2, Lasts
<1>4. Waiting = queue /\ queue \in Seq(Sound') /\ Shape(queue)
  BY <1>2, <1>3, SeqMonotonic DEF WorkInv, Waiting
<1>5. CASE queue' = Tail(queue)
  <2>1. Waiting' = Tail(queue) BY <1>2, <1>5 DEF Waiting
  <2>2. Waiting' \in Seq(Sound') /\ Shape(Waiting)' BY <1>2, <1>4, <2>1, ShapeTail
  <2> QED BY <1>1, <1>2, <2>2, Calm DEF WorkInv
<1>6. ASSUME q.op = "claim", NEW d, NEW of, d = q.d, NEW m \in Mine(d), of = marks[m],
             queue' = <<[op |-> "write", d |-> d, of |-> of]>> \o Tail(queue)
      PROVE  WorkInv'
  <2> DEFINE x == [op |-> "write", d |-> d, of |-> of]
  <2>1. Linked(d, q.of) /\ item[d] # "shown" /\ Unclaimed(d) BY <1>2, <1>6 DEF WaitingOK, Claiming
  <2>2. of \in Seen /\ req[of].url = req[d].url
    BY <1>6, ElementOfSeq DEF Mine, WorldInv
  <2>3. Linked(d, of)' /\ item'[d] # "shown" BY <1>1, <2>1, <2>2, LinkedKept DEF Linked
  <2>4. Unclaimed(d)' BY <1>2, <2>1 DEF Unclaimed
  <2>5. x \in Sound'
    <3>1. d \in Responses /\ of \in Responses BY <2>1, <2>2 DEF Linked, Seen
    <3> QED BY <2>3, <2>4, <3>1 DEF Sound, Ops, OpNames, WaitingOK, Claiming
  <2>6. x.op \in Claiming /\ x.d = q.d /\ q.op \in Claiming BY <1>6 DEF Claiming
  <2>7. Waiting' = <<x>> \o Tail(queue) BY <1>2, <1>6 DEF Waiting
  <2> HIDE DEF x
  <2>8. Waiting' \in Seq(Sound') /\ Shape(Waiting)'
    BY <1>2, <1>4, <2>5, <2>6, <2>7, ShapePut
  <2> QED BY <1>1, <1>2, <2>8, Calm DEF WorkInv
<1>7. CASE q.op = "mark" BY <1>5, <1>7 DEF Exclusive
<1>8. CASE q.op = "claim"
  <2>1. Claim(q.d) BY <1>8 DEF Exclusive
  <2> QED BY <1>5, <1>6, <1>8, <2>1 DEF Claim
<1> QED BY <1>7, <1>8

\* A claim is written: none was, nor does anything deliver its download.
LEMMA WriteWork == ASSUME IInv, Exclusive, Head(queue).op = "write" PROVE WorkInv'
<1> USE DEF IInv
<1>1. PICK d, of : d = Head(queue).d /\ of = Head(queue).of OBVIOUS
<1>2. /\ queue' = Tail(queue) /\ claims' = [claims EXCEPT ![d] = [of |-> of, n |-> 0]]
      /\ UNCHANGED <<runs, item, req, up, events, posts, stored>> /\ up /\ queue # <<>>
  BY <1>1, First DEF Exclusive, Write
<1>3. Linked(d, of) /\ item[d] # "shown" /\ Unclaimed(d) /\ d \in Responses /\ of \in Responses
  BY <1>1, First DEF WaitingOK, Claiming, Linked, Seen
<1>4. /\ claims' \in Claims /\ claims'[d] = [of |-> of, n |-> 0]
      /\ \A c \in Responses \ {d} : claims'[c] = claims[c]
  BY <1>2, <1>3, BoundsAssumption DEF WorkInv, Claims
<1>5. Seen' = Seen BY <1>2 DEF Seen
<1>6. ASSUME NEW c \in Responses PROVE ClaimOK(c)'
  <2>1. CASE c = d BY <1>2, <1>3, <1>4, <1>5, <2>1 DEF ClaimOK, Linked, Unclaimed
  <2>2. CASE c # d BY <1>2, <1>4, <1>5, <2>2 DEF ClaimOK, Linked, WorkInv
  <2> QED BY <2>1, <2>2
<1>7. ASSUME NEW x \in runs PROVE RunOK(x)'
  <2>1. RunOK(x) /\ x.d \in Responses /\ (x.d = d => x.kind = "page")
    BY <1>3 DEF WorkInv, Runs, Unclaimed
  <2>2. x.kind # "page" => claims'[x.d] = claims[x.d] BY <1>4, <2>1
  <2> QED BY <1>2, <1>5, <2>1, <2>2 DEF RunOK, Linked
<1>8. ASSUME NEW i \in 2..Len(queue), NEW t \in Ops, t = queue[i]
      PROVE  (t.op \in Claiming => Unclaimed(t.d)') /\ (t.op = "release" => Releasing(t.d)')
  <2>1. WaitingOK(t) /\ (t.op \in Claiming \cup {"release"} => t.d # d)
    BY <1>1, <1>8, First DEF Claiming
  <2>2. t.op \in Claiming \cup {"release"} => t.d \in Responses
    BY <2>1 DEF WaitingOK, Linked, Seen, Claiming
  <2> QED BY <1>2, <1>4, <2>1, <2>2 DEF WaitingOK, Unclaimed, Releasing
<1> QED BY <1>2, <1>4, <1>6, <1>7, <1>8, Done DEF WorkInv, HandedOnRarely, OneDelivery

\* The delivery of a claim begins, if none has.
LEMMA BeginWork == ASSUME IInv, Exclusive, Head(queue).op = "begin" PROVE WorkInv'
<1> USE DEF IInv
<1>1. PICK d : d = Head(queue).d OBVIOUS
<1>2. /\ queue' = Tail(queue) /\ Begin(d)
      /\ UNCHANGED <<item, req, up, events, posts, stored>> /\ up /\ queue # <<>> /\ d \in Responses
  BY <1>1, First DEF Exclusive, WaitingOK, Linked, Seen
<1>3. Seen' = Seen BY <1>2 DEF Seen
<1>4. CASE UNCHANGED <<claims, runs>>
  <2>1. ASSUME NEW i \in 2..Len(queue), NEW t \in Ops, t = queue[i]
        PROVE  (t.op \in Claiming => Unclaimed(t.d)') /\ (t.op = "release" => Releasing(t.d)')
    <3>1. WaitingOK(t) BY <2>1, First
    <3> QED BY <1>2, <1>4, <3>1 DEF WaitingOK, Unclaimed, Releasing
  <2>2. Waiting' \in Seq(Sound') /\ Shape(Waiting)' /\ up' \in BOOLEAN /\ (up' => events' = <<>>)
    BY <1>2, <2>1, Done
  <2>3. WorldInv' /\ Grows BY WorldInductive DEF Next
  <2> QED BY <1>2, <1>4, <2>2, <2>3, Calm
<1>5. CASE claims[d] # None /\ ~(claims[d].n > 0)
  <2>1. PICK of : of = claims[d].of OBVIOUS
  <2>2. /\ claims' = [claims EXCEPT ![d].n = 1] /\ runs' = runs \cup {Delivery(d, of, 1)}
    BY <1>2, <1>5, <2>1 DEF Begin
  <2>3. /\ claims[d] = [of |-> of, n |-> 0] /\ of \in Responses
    BY <1>2, <1>5, <2>1 DEF WorkInv, Claims
  <2>4. /\ claims' \in Claims /\ claims'[d] = [of |-> of, n |-> 1]
        /\ \A c \in Responses \ {d} : claims'[c] = claims[c]
    <3>1. claims \in Claims BY DEF WorkInv
    <3>2. [of |-> of, n |-> 1] \in [of : Responses, n : 0 .. MaxDeliveries + 1]
      BY <2>3, BoundsAssumption
    <3>3. [claims[d] EXCEPT !.n = 1] = [of |-> of, n |-> 1] BY <2>3
    <3>4. claims' = [claims EXCEPT ![d] = [of |-> of, n |-> 1]] BY <2>2, <3>3
    <3> QED BY <1>2, <3>1, <3>2, <3>4 DEF Claims
  <2>5. Linked(d, of) /\ item[d] # "shown" /\ posts[d] = 0
    BY <1>2, <1>5, <2>3 DEF WorkInv, ClaimOK
  <2>6. \A x \in runs : x.d # d BY <2>3, <2>5 DEF WorkInv, RunOK
  <2>7. ASSUME NEW c \in Responses PROVE ClaimOK(c)'
    <3>1. CASE c = d BY <1>2, <1>3, <2>4, <2>5, <3>1 DEF ClaimOK, Linked, None
    <3>2. CASE c # d BY <1>2, <1>3, <2>4, <3>2 DEF ClaimOK, Linked, WorkInv
    <3> QED BY <3>1, <3>2
  <2>8. Delivery(d, of, 1) \in Runs /\ RunOK(Delivery(d, of, 1))'
    BY <1>2, <1>3, <2>3, <2>4, <2>5, BoundsAssumption DEF Delivery, Runs, Pcs, Outcomes, RunOK, Linked, None
  <2>9. ASSUME NEW x \in runs PROVE RunOK(x)'
    <3>1. RunOK(x) /\ x.d \in Responses \ {d} BY <2>6 DEF WorkInv, Runs
    <3>2. claims'[x.d] = claims[x.d] BY <2>4, <3>1
    <3> QED BY <1>2, <1>3, <3>1, <3>2 DEF RunOK, Linked
  <2>10. OneDelivery' BY <2>2, <2>6 DEF OneDelivery, WorkInv, Delivery
  <2>11. ASSUME NEW i \in 2..Len(queue), NEW t \in Ops, t = queue[i]
         PROVE  (t.op \in Claiming => Unclaimed(t.d)') /\ (t.op = "release" => Releasing(t.d)')
    <3>1. WaitingOK(t) BY <2>11, First
    <3>2. t.op \in Claiming \cup {"release"} => t.d \in Responses \ {d}
      BY <2>3, <3>1 DEF WaitingOK, Linked, Seen, Claiming, Unclaimed, Releasing, None
    <3> QED BY <1>2, <2>2, <2>4, <3>1, <3>2 DEF WaitingOK, Unclaimed, Releasing, Delivery
  <2>12. Waiting' \in Seq(Sound') /\ Shape(Waiting)' /\ up' \in BOOLEAN /\ (up' => events' = <<>>)
    BY <1>2, <2>11, Done
  <2> HIDE DEF Delivery
  <2> QED BY <1>2, <2>2, <2>4, <2>7, <2>8, <2>9, <2>10, <2>12 DEF WorkInv, HandedOnRarely
<1> QED BY <1>2, <1>4, <1>5 DEF Begin

\* A claim is released once its delivery is over.
LEMMA ReleaseWork == ASSUME IInv, Exclusive, Head(queue).op = "release" PROVE WorkInv'
<1> USE DEF IInv
<1>1. PICK d : d = Head(queue).d OBVIOUS
<1>2. /\ queue' = Tail(queue) /\ Release(d)
      /\ UNCHANGED <<item, req, up, events, posts, stored>> /\ up /\ queue # <<>>
      /\ d \in Responses /\ Releasing(d)
  BY <1>1, First DEF Exclusive, WaitingOK, Linked, Seen, Claiming
<1>3. Seen' = Seen BY <1>2 DEF Seen
<1>4. /\ claims' \in Claims /\ claims'[d] = None /\ \A c \in Responses \ {d} : claims'[c] = claims[c]
  BY <1>2 DEF Release, WorkInv, Claims
<1>5. runs' \subseteq runs /\ \A x \in runs' : x.d = d => x.kind = "page"
  BY <1>2 DEF Release, Releasing
<1>6. ASSUME NEW c \in Responses PROVE ClaimOK(c)'
  <2>1. ClaimOK(c) BY DEF WorkInv
  <2>2. claims'[c] = None \/ claims'[c] = claims[c] BY <1>4
  <2> QED BY <1>2, <1>3, <2>1, <2>2 DEF ClaimOK, Linked
<1>7. ASSUME NEW x \in runs' PROVE RunOK(x)'
  <2>1. RunOK(x) /\ x.d \in Responses /\ (x.kind # "page" => x.d # d) BY <1>5 DEF WorkInv, Runs
  <2>2. x.kind # "page" => claims'[x.d] = claims[x.d] BY <1>4, <2>1
  <2> QED BY <1>2, <1>3, <2>1, <2>2 DEF RunOK, Linked
<1>8. ASSUME NEW i \in 2..Len(queue), NEW t \in Ops, t = queue[i]
      PROVE  (t.op \in Claiming => Unclaimed(t.d)') /\ (t.op = "release" => Releasing(t.d)')
  <2>1. WaitingOK(t) BY <1>8, First
  <2>2. t.op \in Claiming \cup {"release"} =>
           t.d \in Responses /\ (claims'[t.d] = claims[t.d] \/ claims'[t.d] = None)
    BY <1>4, <2>1 DEF WaitingOK, Linked, Seen, Claiming
  <2>3. None.n # 0 BY DEF None
  <2> QED BY <1>2, <1>5, <2>1, <2>2, <2>3 DEF WaitingOK, Unclaimed, Releasing, Claiming
<1>9. Waiting' \in Seq(Sound') /\ Shape(Waiting)' /\ up' \in BOOLEAN /\ (up' => events' = <<>>)
  BY <1>2, <1>8, Done
<1> QED BY <1>2, <1>4, <1>5, <1>6, <1>7, <1>9 DEF WorkInv, HandedOnRarely, OneDelivery

\* A new worker takes up the claims begun before: nothing delivers them.
LEMMA ResumeWork == ASSUME IInv, Exclusive, Head(queue).op = "resume" PROVE WorkInv'
<1> USE DEF IInv
<1>1. /\ queue' = Tail(queue) /\ Resume /\ \A x \in runs : x.kind = "page"
      /\ UNCHANGED <<item, req, up, events, posts, stored>> /\ up /\ queue # <<>>
  BY First DEF Exclusive, WaitingOK
<1>2. Seen' = Seen BY <1>1 DEF Seen
<1>3. ASSUME NEW d \in Responses, d \in Begun
      PROVE  \E of \in Responses, n \in 1..MaxDeliveries + 1 :
                /\ of = claims[d].of /\ n = Again(claims[d].n) /\ claims'[d] = [of |-> of, n |-> n]
                /\ claims[d] # None /\ posts[d] < n /\ Linked(d, of) /\ item[d] # "shown"
  <2>1. claims[d] \in [of : Responses, n : 0..MaxDeliveries + 1] /\ claims[d].n > 0
    BY <1>3 DEF WorkInv, Claims, Begun, None
  <2>2. claims'[d] = [claims[d] EXCEPT !.n = Again(claims[d].n)] BY <1>1, <1>3 DEF Resume
  <2>3. claims[d] # None BY <2>1 DEF None
  <2>4. /\ Linked(d, claims[d].of) /\ item[d] # "shown" /\ posts[d] <= claims[d].n
        /\ posts[d] \in Nat /\ posts[d] <= MaxDeliveries
    BY <2>3 DEF WorkInv, ClaimOK, HandedOnRarely
  <2>5. Again(claims[d].n) \in 1..MaxDeliveries + 1 /\ posts[d] < Again(claims[d].n)
    BY <2>1, <2>4, BoundsAssumption DEF Again
  <2>6. PICK of \in Responses, n \in 1..MaxDeliveries + 1 : of = claims[d].of /\ n = Again(claims[d].n)
    BY <2>1, <2>5
  <2>7. claims'[d] = [of |-> of, n |-> n] BY <2>1, <2>2, <2>6
  <2> QED BY <2>3, <2>4, <2>5, <2>6, <2>7
<1>4. ASSUME NEW d \in Responses, d \notin Begun PROVE claims'[d] = claims[d]
  BY <1>1, <1>4 DEF Resume
<1>5. claims' \in Claims
  <2>1. claims' = [d \in Responses |-> claims'[d]] BY <1>1 DEF Resume
  <2>2. ASSUME NEW d \in Responses
        PROVE  claims'[d] \in {None} \cup [of : Responses, n : 0..MaxDeliveries + 1]
    <3>1. CASE d \in Begun
      <4>1. PICK of \in Responses, n \in 1..MaxDeliveries + 1 : claims'[d] = [of |-> of, n |-> n]
        BY <1>3, <3>1
      <4>2. n \in 0..MaxDeliveries + 1 BY <4>1, BoundsAssumption
      <4> QED BY <4>1, <4>2
    <3>2. CASE d \notin Begun BY <1>4, <3>2 DEF WorkInv, Claims
    <3> QED BY <3>1, <3>2
  <2> QED BY <2>1, <2>2 DEF Claims
<1>6. ASSUME NEW d \in Responses PROVE ClaimOK(d)'
  <2>1. ClaimOK(d) /\ posts[d] \in Nat BY DEF WorkInv
  <2>2. CASE d \in Begun
    <3>1. PICK of \in Responses, n \in 1..MaxDeliveries + 1 :
             claims'[d] = [of |-> of, n |-> n] /\ posts[d] < n /\ Linked(d, of) /\ item[d] # "shown"
      BY <1>3, <2>2
    <3>2. claims'[d].of = of /\ claims'[d].n = n /\ posts[d] <= n BY <2>1, <3>1, BoundsAssumption
    <3>3. d \in Seen' /\ Linked(d, of)' BY <1>1, <1>2, <3>1 DEF Linked
    <3> QED BY <1>1, <3>1, <3>2, <3>3 DEF ClaimOK
  <2>3. CASE d \notin Begun BY <1>1, <1>2, <1>4, <2>1, <2>3 DEF ClaimOK, Linked
  <2> QED BY <2>2, <2>3
<1>7. ASSUME NEW x \in runs', x \notin runs
      PROVE  \E d \in Responses : d \in Begun /\ x = Delivery(d, claims[d].of, Again(claims[d].n))
  BY <1>1, <1>7 DEF Resume, Begun
<1>8. ASSUME NEW x \in runs' PROVE x \in Runs /\ RunOK(x)'
  <2>1. CASE x \in runs
    <3>1. x \in Runs /\ RunOK(x) /\ x.kind = "page" BY <1>1, <2>1 DEF WorkInv
    <3> QED BY <1>1, <1>2, <3>1 DEF RunOK, Linked
  <2>2. ASSUME NEW d \in Responses, d \in Begun, x = Delivery(d, claims[d].of, Again(claims[d].n))
        PROVE  x \in Runs /\ RunOK(x)'
    <3>1. PICK of \in Responses, n \in 1..MaxDeliveries + 1 :
             /\ of = claims[d].of /\ n = Again(claims[d].n) /\ claims'[d] = [of |-> of, n |-> n]
             /\ posts[d] < n /\ Linked(d, of) /\ item[d] # "shown"
      BY <1>3, <2>2
    <3>2. x = Delivery(d, of, n) BY <2>2, <3>1
    <3>3. /\ x.d = d /\ x.of = of /\ x.n = n /\ x.pc = "search" /\ x.kind = "none" /\ x.out = "none"
          /\ n \in 0..MaxDeliveries + 1 /\ n > 0
      BY <3>2, BoundsAssumption DEF Delivery
    <3>4. x \in Runs BY <3>2, <3>3 DEF Delivery, Runs, Pcs, Outcomes
    <3>5. claims'[d].n = n /\ n # -1 BY <3>1, <3>3
    <3>6. claims'[d] # None BY <3>5 DEF None
    <3>7. posts'[d] < n /\ Linked(d, of)' /\ item'[d] # "shown" BY <1>1, <1>2, <3>1 DEF Linked
    <3> QED BY <3>3, <3>4, <3>5, <3>6, <3>7 DEF RunOK
  <2> QED BY <1>7, <2>1, <2>2
<1>9. OneDelivery'
  <2> SUFFICES ASSUME NEW x \in runs', NEW y \in runs', x.d = y.d PROVE x = y BY DEF OneDelivery
  <2>1. \A z \in runs : item[z.d] = "shown" BY <1>1 DEF WorkInv, RunOK
  <2>2. ASSUME NEW z \in runs', z \notin runs
        PROVE  item[z.d] # "shown" /\ z = Delivery(z.d, claims[z.d].of, Again(claims[z.d].n))
    <3>1. PICK d \in Responses : d \in Begun /\ z = Delivery(d, claims[d].of, Again(claims[d].n))
      BY <1>7, <2>2
    <3>2. z.d = d BY <3>1 DEF Delivery
    <3> QED BY <1>3, <3>1, <3>2
  <2> QED BY <2>1, <2>2 DEF WorkInv, OneDelivery
<1>10. ASSUME NEW i \in 2..Len(queue), NEW t \in Ops, t = queue[i]
       PROVE  (t.op \in Claiming => Unclaimed(t.d)') /\ (t.op = "release" => Releasing(t.d)')
  <2>1. WaitingOK(t) /\ t.op # "release" BY <1>10, First
  <2>2. t.op \in Claiming => t.d \in Responses /\ t.d \notin Begun /\ Unclaimed(t.d)
    BY <2>1 DEF WaitingOK, Linked, Seen, Claiming, Unclaimed, Begun, None
  <2>3. t.op \in Claiming => \A x \in runs' : x.d = t.d => x.kind = "page"
    BY <1>7, <2>2 DEF Unclaimed, Delivery
  <2> QED BY <1>1, <1>4, <2>1, <2>2, <2>3 DEF Unclaimed
<1>11. Waiting' \in Seq(Sound') /\ Shape(Waiting)' /\ up' \in BOOLEAN /\ (up' => events' = <<>>)
  BY <1>1, <1>10, Done
<1> QED BY <1>1, <1>5, <1>6, <1>8, <1>9, <1>11 DEF WorkInv, HandedOnRarely

----------------------------------------------------------------------------
(* The deliveries.                                                              *)

\* A delivery that goes on to a next step, perhaps with the bucket handed its PDF, or to the
\* release of its claim, leaves the others and what waits.
LEMMA StepWork ==
    ASSUME IInv, Grows, NEW run \in runs, NEW next \in Runs, runs' = (runs \ {run}) \cup {next},
           next.d = run.d, next.kind = "page" <=> run.kind = "page", RunOK(next)',
           run.pc # "release", up, UNCHANGED <<claims, up, events>>, stored \subseteq stored',
           \/ posts' = posts
           \/ /\ run.kind # "page" /\ run.pc = "post"
              /\ posts' = [posts EXCEPT ![run.d] = @ + 1],
           \/ queue' = queue
           \/ /\ queue' = Append(queue, [op |-> "release", d |-> run.d, of |-> run.d])
              /\ run.kind # "page" /\ next.pc = "release"
    PROVE  WorkInv'
<1> USE DEF IInv
<1>1. run \in Runs /\ RunOK(run) /\ run.d \in Responses /\ run.of \in Responses /\ run.n \in Nat
  BY BoundsAssumption DEF WorkInv, Runs
<1>2. /\ posts' \in [Responses -> Nat] /\ HandedOnRarely'
      /\ \A c \in Responses : posts'[c] = posts[c] \/ (c = run.d /\ posts'[c] <= claims[c].n)
      /\ \A c \in Responses : posts'[c] = posts[c] \/ (c = run.d /\ run.kind # "page")
  <2>1. CASE posts' = posts BY <2>1 DEF WorkInv, HandedOnRarely
  <2>2. CASE run.kind # "page" /\ run.pc = "post" /\ posts' = [posts EXCEPT ![run.d] = @ + 1]
    <3>1. posts[run.d] < run.n /\ run.n <= MaxDeliveries /\ claims[run.d].n = run.n /\ posts \in [Responses -> Nat]
      BY <1>1, <2>2 DEF RunOK, WorkInv
    <3>2. posts' \in [Responses -> Nat] /\ posts'[run.d] <= run.n
          /\ \A c \in Responses \ {run.d} : posts'[c] = posts[c]
      BY <1>1, <2>2, <3>1
    <3>3. HandedOnRarely'
      <4>1. posts'[run.d] <= MaxDeliveries
        <5>1. MaxDeliveries \in Nat BY BoundsAssumption
        <5>2. posts'[run.d] \in Nat /\ run.n \in Nat BY <1>1, <3>2
        <5> QED BY <3>1, <3>2, <5>1, <5>2
      <4> QED BY <3>2, <4>1 DEF HandedOnRarely, WorkInv
    <3> QED BY <2>2, <3>1, <3>2, <3>3
  <2> QED BY <2>1, <2>2
<1>3. ASSUME NEW c \in Responses PROVE ClaimOK(c)'
  <2>1. ClaimOK(c) BY DEF WorkInv
  <2>2. claims[c] # None => Linked(c, claims[c].of)' /\ item'[c] # "shown"
    BY <2>1, LinkedKept DEF ClaimOK
  <2>3. c \notin Seen' => c \notin Seen /\ c # run.d BY <1>1 DEF Grows, RunOK, Linked
  <2> QED BY <1>2, <2>1, <2>2, <2>3 DEF ClaimOK
<1>4. ASSUME NEW x \in runs' PROVE RunOK(x)' /\ x \in Runs
  <2>1. CASE x = next BY <2>1
  <2>2. CASE x \in runs /\ x # run
    <3>1. RunOK(x) /\ x.d \in Responses /\ x.d # run.d /\ x \in Runs
      BY <2>2 DEF WorkInv, Runs, OneDelivery
    <3>2. /\ Linked(x.d, x.of)' /\ x.of \in Seen /\ (item'[x.d] = "shown" <=> item[x.d] = "shown")
      BY <3>1, LinkedKept DEF RunOK, Linked
    <3>3. req'[x.of] = req[x.of] /\ posts'[x.d] = posts[x.d] BY <1>2, <3>1, <3>2 DEF Grows
    <3> QED BY <3>1, <3>2, <3>3 DEF RunOK
  <2> QED BY <2>1, <2>2
<1>5. OneDelivery' BY DEF WorkInv, OneDelivery
<1>6. ASSUME NEW t \in Sound PROVE t \in Sound'
  <2>1. t \in Ops /\ WaitingOK(t) BY DEF Sound
  <2>2. t.op # "resume" => Linked(t.d, t.of)' /\ t.d \in Responses /\ (item'[t.d] = "shown" <=> item[t.d] = "shown")
    BY <2>1, LinkedKept DEF WaitingOK, Linked, Seen
  <2>3. t.op \in Claiming => Unclaimed(t.d)'
    <3> SUFFICES ASSUME t.op \in Claiming PROVE Unclaimed(t.d)' OBVIOUS
    <3>1. Unclaimed(t.d) /\ t.d \in Responses BY <2>1, <2>2 DEF WaitingOK, Claiming
    <3>2. run.d = t.d => run.kind = "page" BY <3>1 DEF Unclaimed
    <3>3. posts'[t.d] = posts[t.d] BY <1>2, <3>1, <3>2
    <3> QED BY <3>1, <3>2, <3>3 DEF Unclaimed
  <2>4. t.op = "release" => Releasing(t.d)' BY <2>1 DEF WaitingOK, Releasing
  <2>5. t.op = "resume" => \A x \in runs' : x.kind = "page" BY <2>1 DEF WaitingOK
  <2>6. WaitingOK(t)' BY <2>1, <2>2, <2>3, <2>4, <2>5 DEF WaitingOK, Claiming
  <2> QED BY <2>1, <2>6 DEF Sound
<1>7. Waiting = queue /\ Waiting' = queue' /\ queue \in Seq(Sound) /\ Shape(queue) /\ queue \in Seq(Sound')
  BY <1>6, SeqMonotonic DEF WorkInv, Waiting
<1>8. queue' \in Seq(Sound') /\ Shape(queue')
  <2>1. CASE queue' = queue BY <1>7, <2>1
  <2>2. CASE /\ queue' = Append(queue, [op |-> "release", d |-> run.d, of |-> run.d])
             /\ run.kind # "page" /\ next.pc = "release"
    <3> DEFINE o == [op |-> "release", d |-> run.d, of |-> run.d]
               e == <<o>>
    <3>1. o \in Sound'
      <4>1. Linked(run.d, run.d)' /\ item'[run.d] # "shown" BY <1>1, <2>2, LinkedKept DEF RunOK, Linked
      <4>2. claims[run.d].n # 0 BY <1>1, <2>2 DEF RunOK
      <4>3. \A x \in runs' : x.d = run.d => x = next BY DEF WorkInv, OneDelivery
      <4>4. Releasing(run.d)' BY <2>2, <4>2, <4>3 DEF Releasing
      <4> QED BY <1>1, <4>1, <4>4 DEF Sound, Ops, OpNames, WaitingOK, Claiming
    <3>2. e \in Seq(Sound') /\ Len(e) <= 1 /\ \A i \in 1..Len(e) : e[i].op = "release" /\ e[i].d = run.d
      BY <3>1
    <3>3. \A j \in 1..Len(queue) : queue[j].op # "resume" /\ (queue[j].d = run.d => queue[j].op \notin Claiming)
      <4>1. \A j \in 1..Len(queue) : WaitingOK(queue[j]) BY <1>7, ElementOfSeq DEF Sound
      <4> QED BY <2>2, <4>1 DEF WaitingOK, Unclaimed
    <3>4. queue' = queue \o e BY <1>7, <2>2, <3>1, AppendIsConcat
    <3> HIDE DEF e
    <3>5. \A i \in 1..Len(e) :
            /\ e[i].op # "resume"
            /\ \A j \in 1..Len(queue) :
                  /\ e[i].op = "release" => queue[j].op # "resume"
                  /\ queue[j].d = e[i].d =>
                        /\ e[i].op \in Claiming \cup {"release"} => queue[j].op \notin Claiming
                        /\ e[i].op \in Claiming => queue[j].op # "release"
      BY <3>2, <3>3 DEF Claiming
    <3> QED BY <1>7, <3>2, <3>4, <3>5, ShapeMore
  <2> QED BY <2>1, <2>2
<1> QED BY <1>2, <1>3, <1>4, <1>5, <1>7, <1>8 DEF WorkInv

\* A delivery whose worker's promise rejects is over, and keeps its claim.
LEMMA ThrowWork ==
    ASSUME IInv, Grows, NEW run \in runs, runs' = runs \ {run}, up,
           UNCHANGED <<claims, posts, up, events, queue>>, stored \subseteq stored'
    PROVE  WorkInv'
<1>1. Sound \subseteq Sound' BY Lasts
<1>2. Waiting' = Waiting /\ Waiting \in Seq(Sound') BY <1>1, SeqMonotonic DEF Waiting, IInv, WorkInv
<1> QED BY <1>2, Calm DEF IInv, WorkInv

\* A step to the release of the claim.
LEMMA FreeWork ==
    ASSUME IInv, Grows, NEW run \in runs, Free(run), run.kind # "page", run.pc # "release", up,
           UNCHANGED <<claims, up, events, posts>>, stored \subseteq stored'
    PROVE  WorkInv'
<1> USE DEF IInv
<1>1. run \in Runs /\ RunOK(run) BY DEF WorkInv
<1> DEFINE next == [run EXCEPT !.pc = "release"]
<1>2. /\ next \in Runs /\ next.d = run.d /\ next.of = run.of /\ next.n = run.n /\ next.kind = run.kind
      /\ next.pc = "release" /\ next.out = run.out
  BY <1>1 DEF Runs, Pcs
<1>3. /\ Linked(run.d, run.of)' /\ (item'[run.d] = "shown" <=> item[run.d] = "shown")
      /\ req'[run.of] = req[run.of]
  BY <1>1, LinkedKept DEF RunOK, Linked, Grows
<1>4. runs' = (runs \ {run}) \cup {next} BY DEF Free, Goto, Step
<1>5. queue' = Append(queue, [op |-> "release", d |-> run.d, of |-> run.d]) BY DEF Free
<1> HIDE DEF next
<1>6. RunOK(next)' BY <1>1, <1>2, <1>3 DEF RunOK
<1> QED BY <1>2, <1>4, <1>5, <1>6, StepWork

LEMMA SearchWork == ASSUME IInv, NEW run \in runs, Search(run) PROVE WorkInv'
<1> USE DEF IInv
<1>1. WorldInv' /\ Grows BY WorldInductive DEF Next, Deliver
<1>2. /\ up /\ run.pc = "search" /\ UNCHANGED <<claims, posts, up, events, stored, item, req>>
  BY DEF Search, At, Keep, ledger
<1>3. run \in Runs /\ RunOK(run) /\ run.kind # "page" BY <1>2 DEF WorkInv, RunOK
<1>4. Seen' = Seen BY <1>2 DEF Seen
<1>5. CASE Free(run) BY <1>1, <1>2, <1>3, <1>5, FreeWork
<1>6. CASE queue' = queue /\ Throw(run) BY <1>1, <1>2, <1>6, ThrowWork DEF Throw
<1>7. ASSUME item[run.d] # "erased", KindOf(run) \notin {"running", "rerun"},
             NEW next, next = [run EXCEPT !.kind = IF KindOf(run) = "removed" THEN "complete" ELSE KindOf(run),
                                          !.out = IF req[run.of].kind = "small" THEN "small" ELSE "none",
                                          !.pc = IF req[run.of].kind # "small" THEN "check"
                                                 ELSE IF KindOf(run) = "interrupted" THEN "erase" ELSE "remove"],
             Step(run, next), queue' = queue
      PROVE  WorkInv'
  <2> DEFINE kind == IF KindOf(run) = "removed" THEN "complete" ELSE KindOf(run)
             out == IF req[run.of].kind = "small" THEN "small" ELSE "none"
             pc == IF req[run.of].kind # "small" THEN "check"
                   ELSE IF KindOf(run) = "interrupted" THEN "erase" ELSE "remove"
  <2>1. /\ next = [run EXCEPT !.kind = kind, !.out = out, !.pc = pc]
        /\ out \in {"small", "none"} /\ pc \in {"check", "erase", "remove"}
        /\ pc \in {"remove", "erase"} => out = "small"
        /\ out = "small" => req[run.of].kind = "small"
    BY <1>7
  <2>2. kind \in {"complete", "interrupted", "lost"} /\ (kind # "lost" => run.n <= MaxDeliveries)
    <3>1. CASE run.n > MaxDeliveries BY <2>1, <3>1 DEF KindOf
    <3>2. CASE ~(run.n > MaxDeliveries)
      <4>1. item[run.d] \in ItemStates \ {"none", "shown", "running", "rerun", "erased"}
        BY <1>3, <1>7, <3>2 DEF KindOf, RunOK, Linked, Seen, WorldInv
      <4>2. run.n <= MaxDeliveries
        <5>1. MaxDeliveries \in Nat /\ run.n \in Nat BY <1>3, BoundsAssumption DEF Runs
        <5> QED BY <3>2, <5>1
      <4> QED BY <2>1, <3>2, <4>1, <4>2 DEF KindOf, ItemStates
    <3> QED BY <3>1, <3>2
  <2>3. /\ next \in Runs /\ next.d = run.d /\ next.of = run.of /\ next.n = run.n /\ next.kind = kind
        /\ next.pc = pc /\ next.out = out
    <3> HIDE DEF kind, out, pc
    <3>1. kind \in {"none", "complete", "interrupted", "lost", "page"} /\ pc \in Pcs /\ out \in Outcomes
      BY <2>1, <2>2 DEF Pcs, Outcomes
    <3> QED BY <1>3, <2>1, <3>1 DEF Runs
  <2> HIDE DEF kind, out, pc
  <2>4. RunOK(next)' BY <1>2, <1>3, <1>4, <2>1, <2>2, <2>3 DEF RunOK, Linked
  <2>5. runs' = (runs \ {run}) \cup {next} BY <1>7 DEF Step
  <2> QED BY <1>1, <1>2, <1>3, <1>7, <2>2, <2>3, <2>4, <2>5, StepWork
<1> QED BY <1>5, <1>6, <1>7 DEF Search

\* A step to a later place, with what was learnt: nothing it knew is wrong there.
LEMMA GotoWork ==
    ASSUME IInv, WorldInv', Grows, NEW run \in runs, NEW pc \in {"erase", "hand", "show", "report"},
           NEW out \in Outcomes, Settle(run, out, pc),
           run.kind = "page" => pc = "report", run.pc # "release", up,
           out = "small" => out = run.out,
           pc = "erase" => out = "small" \/ req[run.of].url \in stored, pc = "hand" => out = "small",
           UNCHANGED <<claims, up, events, queue>>, stored \subseteq stored',
           \/ posts' = posts
           \/ run.kind # "page" /\ run.pc = "post" /\ posts' = [posts EXCEPT ![run.d] = @ + 1]
    PROVE  WorkInv'
<1> USE DEF IInv
<1>1. run \in Runs /\ RunOK(run) BY DEF WorkInv
<1> DEFINE next == [run EXCEPT !.out = out, !.pc = pc]
<1>2. /\ next \in Runs /\ next.d = run.d /\ next.of = run.of /\ next.n = run.n /\ next.kind = run.kind
      /\ next.pc = pc /\ next.out = out
  BY <1>1 DEF Runs, Pcs
<1>3. /\ Linked(run.d, run.of)' /\ (item'[run.d] = "shown" <=> item[run.d] = "shown")
      /\ req'[run.of] = req[run.of]
  BY <1>1, LinkedKept DEF RunOK, Linked, Grows
<1>4. runs' = (runs \ {run}) \cup {next} BY DEF Settle, Step
<1> HIDE DEF next
<1>5. RunOK(next)' BY <1>1, <1>2, <1>3 DEF RunOK
<1> QED BY <1>2, <1>4, <1>5, StepWork

LEMMA DeliverWork == ASSUME IInv, NEW run \in runs, Deliver(run) PROVE WorkInv'
<1> USE DEF IInv
<1>1. WorldInv' /\ Grows BY WorldInductive DEF Next
<1>2. run \in Runs /\ RunOK(run) BY DEF WorkInv
<1>3. UNCHANGED <<claims, up, events>> /\ up /\ run.pc # "release"
  BY DEF Deliver, Search, Check, Post, RemoveFile, Erase, Hand, Show, Report, At, Keep
<1>4. run.out \in Outcomes BY <1>2 DEF Runs
<1>5. ASSUME NEW pc \in {"erase", "hand", "show", "report"}, NEW out \in Outcomes,
             Settle(run, out, pc),
             run.kind = "page" => pc = "report", out = "small" => out = run.out,
             pc = "erase" => out = "small" \/ req[run.of].url \in stored, pc = "hand" => out = "small",
             queue' = queue, stored \subseteq stored', posts' = posts
      PROVE  WorkInv'
  <2>1. run.pc # "release" /\ up /\ UNCHANGED <<claims, up, events, queue>> BY <1>3, <1>5
  <2>2. run.kind = "page" => pc = "report" BY <1>5
  <2> QED BY <1>1, <1>5, <2>1, <2>2, GotoWork
<1>6. ASSUME NEW pc \in {"erase", "hand", "show"}, Goto(run, pc), run.kind # "page", queue' = queue,
             pc = "erase" => run.out = "small" \/ req[run.of].url \in stored,
             pc = "hand" => run.out = "small", stored' = stored, posts' = posts
      PROVE  WorkInv'
  <2>1. [run EXCEPT !.pc = pc] = [run EXCEPT !.out = run.out, !.pc = pc] BY <1>2 DEF Runs
  <2>2. Settle(run, run.out, pc) BY <1>6, <2>1 DEF Goto, Settle
  <2> QED BY <1>4, <1>5, <1>6, <2>2
<1>7. ASSUME Throw(run), queue' = queue, stored \subseteq stored', posts' = posts PROVE WorkInv'
  BY <1>1, <1>3, <1>7, ThrowWork DEF Throw
<1>8. ASSUME Free(run), run.kind # "page", stored' = stored, posts' = posts PROVE WorkInv'
  BY <1>1, <1>3, <1>8, FreeWork
<1>9. CASE Search(run) BY <1>9, SearchWork
<1>10. CASE Check(run)
  <2>1. run.pc = "check" /\ queue' = queue /\ UNCHANGED <<stored, posts, item, req>> BY <1>10 DEF Check, At, ledger, Keep
  <2>2. CASE Settle(run, "failed", "report")
    BY <1>5, <2>1, <2>2 DEF Outcomes
  <2>3. CASE run.kind \notin {"interrupted", "lost"} /\ Goto(run, "post")
    <3> DEFINE next == [run EXCEPT !.pc = "post"]
    <3>1. /\ next \in Runs /\ next.d = run.d /\ next.of = run.of /\ next.n = run.n /\ next.kind = run.kind
          /\ next.pc = "post" /\ next.out = run.out
      BY <1>2 DEF Runs, Pcs
    <3>2. runs' = (runs \ {run}) \cup {next} BY <2>3 DEF Goto, Step
    <3> HIDE DEF next
    <3>3. Linked(run.d, run.of)' /\ item' = item /\ req' = req BY <1>1, <1>2, <2>1, LinkedKept DEF RunOK
    <3>4. RunOK(next)' BY <1>2, <1>3, <2>1, <2>3, <3>1, <3>3 DEF RunOK
    <3> QED BY <1>1, <1>3, <2>1, <3>1, <3>2, <3>4, StepWork
  <2> QED BY <1>10, <2>2, <2>3 DEF Check
<1>11. CASE Post(run)
  <2>1. /\ run.pc = "post" /\ queue' = queue /\ stored \subseteq stored' /\ UNCHANGED <<item, req>>
        /\ posts' = [posts EXCEPT ![run.d] = IF run.kind = "page" THEN @ ELSE @ + 1]
    BY <1>11 DEF Post, At, Keep
  <2>2. \/ run.kind = "page" /\ posts' = posts
        \/ run.kind # "page" /\ posts' = [posts EXCEPT ![run.d] = @ + 1]
    BY <2>1 DEF WorkInv
  <2>3. CASE Settle(run, "failed", "report")
    <3>1. "failed" \in Outcomes BY DEF Outcomes
    <3>2. run.pc # "release" /\ up /\ UNCHANGED <<claims, up, events, queue>> BY <1>3, <2>1
    <3> QED BY <1>1, <2>1, <2>2, <2>3, <3>1, <3>2, GotoWork
  <2>4. CASE run.kind = "page" /\ Throw(run) BY <1>7, <2>1, <2>2, <2>4
  <2>5. CASE run.kind # "page" /\ stored' = stored \cup {req[run.of].url} /\ Settle(run, "stored", "remove")
    <3> DEFINE next == [run EXCEPT !.out = "stored", !.pc = "remove"]
    <3>1. /\ next \in Runs /\ next.d = run.d /\ next.of = run.of /\ next.n = run.n /\ next.kind = run.kind
          /\ next.pc = "remove" /\ next.out = "stored"
      BY <1>2 DEF Runs, Pcs, Outcomes
    <3>2. runs' = (runs \ {run}) \cup {next} BY <2>5 DEF Settle, Step
    <3> HIDE DEF next
    <3>3. Linked(run.d, run.of)' /\ item' = item /\ req' = req BY <1>1, <1>2, <2>1, LinkedKept DEF RunOK
    <3>4. RunOK(next)' BY <1>2, <1>3, <2>1, <2>5, <3>1, <3>3 DEF RunOK
    <3> QED BY <1>1, <1>3, <2>1, <2>2, <2>5, <3>1, <3>2, <3>4, StepWork
  <2> QED BY <1>11, <2>3, <2>4, <2>5 DEF Post
<1>12. CASE RemoveFile(run)
  <2>1. run.kind # "page" /\ queue' = queue /\ UNCHANGED <<stored, posts>>
    BY <1>2, <1>12 DEF RemoveFile, At, RunOK, ledger
  <2>2. run.out = "small" \/ req[run.of].url \in stored BY <1>2, <1>12 DEF RemoveFile, At, RunOK
  <2>3. CASE Throw(run) BY <1>7, <2>1, <2>3
  <2>4. CASE Goto(run, "erase") BY <1>6, <2>1, <2>2, <2>4
  <2> QED BY <1>12, <2>3, <2>4 DEF RemoveFile
<1>13. CASE Erase(run)
  <2>1. run.kind # "page" /\ UNCHANGED <<stored, posts>> BY <1>2, <1>13 DEF Erase, At, RunOK, ledger
  <2>2. CASE run.out = "small" /\ queue' = queue /\ Goto(run, "hand") BY <1>6, <2>1, <2>2
  <2>3. CASE queue' = queue /\ Goto(run, "show") BY <1>6, <2>1, <2>3
  <2>4. CASE Free(run) BY <1>8, <2>1, <2>4
  <2> QED BY <1>13, <2>2, <2>3, <2>4 DEF Erase
<1>14. CASE Hand(run)
  <2>1. run.kind # "page" /\ queue' = queue /\ UNCHANGED <<stored, posts>>
    BY <1>2, <1>14 DEF Hand, At, RunOK
  <2>2. Goto(run, "show") BY <1>14 DEF Hand
  <2> QED BY <1>6, <2>1, <2>2
<1>15. CASE Show(run)
  <2>1. run.kind # "page" /\ UNCHANGED <<stored, posts>> BY <1>2, <1>15 DEF Show, At, RunOK
  <2> QED BY <1>7, <1>8, <1>15, <2>1 DEF Show
<1>16. CASE Report(run)
  <2>1. UNCHANGED <<stored, posts>> BY <1>16 DEF Report
  <2>2. \/ Throw(run) /\ queue' = queue
        \/ Free(run) /\ run.kind # "page"
    BY <1>16 DEF Report
  <2> QED BY <1>7, <1>8, <2>1, <2>2
<1> QED BY <1>9, <1>10, <1>11, <1>12, <1>13, <1>14, <1>15, <1>16 DEF Deliver

\* A capture page asks for what the browser shows: no download of it is delivered.
LEMMA AskWork == ASSUME IInv, NEW r \in Responses, Ask(r) PROVE WorkInv'
<1> USE DEF IInv
<1> DEFINE page == [Delivery(r, r, 0) EXCEPT !.pc = "check", !.kind = "page"]
<1>1. /\ r \in held /\ req[r].kind # "link" /\ runs' = runs \cup {page} /\ \A x \in runs : x.d # r
      /\ UNCHANGED <<item, req, claims, posts, up, events, queue, stored>> /\ up
  BY DEF Ask, Keep, ledger
<1>2. r \in Seen /\ item[r] = "shown" BY <1>1 DEF WorldInv
<1>3. page.d = r /\ page.of = r /\ page.kind = "page" /\ page.pc = "check" /\ page.out = "none" BY DEF Delivery
<1>4. page \in Runs
  <2>1. 0 \in 0..MaxDeliveries + 1 BY BoundsAssumption
  <2> QED BY <2>1 DEF Delivery, Runs, Pcs, Outcomes
<1>5. Seen' = Seen BY <1>1 DEF Seen
<1> HIDE DEF page
<1>6. RunOK(page)' BY <1>1, <1>2, <1>3, <1>5 DEF RunOK, Linked
<1>7. ASSUME NEW x \in runs PROVE RunOK(x)'
  <2>1. RunOK(x) BY DEF WorkInv
  <2> QED BY <1>1, <1>5, <2>1 DEF RunOK, Linked
<1>8. ASSUME NEW d \in Responses PROVE ClaimOK(d)'
  <2>1. ClaimOK(d) BY DEF WorkInv
  <2> QED BY <1>1, <1>5, <2>1 DEF ClaimOK, Linked
<1>9. OneDelivery' BY <1>1, <1>3 DEF OneDelivery, WorkInv
<1>10. ASSUME NEW t \in Sound PROVE t \in Sound'
  <2>1. t \in Ops /\ WaitingOK(t) BY DEF Sound
  <2>2. WaitingOK(t)'
    BY <1>1, <1>3, <1>5, <2>1 DEF WaitingOK, Linked, Unclaimed, Releasing
  <2> QED BY <2>1, <2>2 DEF Sound
<1>11. Waiting' = Waiting /\ Waiting \in Seq(Sound') BY <1>1, <1>10, SeqMonotonic DEF WorkInv, Waiting
<1> QED BY <1>1, <1>4, <1>6, <1>7, <1>8, <1>9, <1>11 DEF WorkInv, HandedOnRarely

LEMMA WorkInductive == ASSUME IInv, [Next]_vars PROVE WorkInv'
<1>1. CASE Exclusive
  <2>1. Head(queue).op \in OpNames BY <1>1, First DEF Ops
  <2> QED BY <1>1, <2>1, MarkClaimWork, WriteWork, BeginWork, ReleaseWork, ResumeWork DEF OpNames
<1> QED BY <1>1, RespondWork, DownloadWork, AskWork, LifeWork, DeliverWork DEF Next

LEMMA Initial == Init => IInv
<1> SUFFICES ASSUME Init PROVE IInv OBVIOUS
<1> USE DEF Init
<1>1. WorldInv
  <2>1. Seen = {} BY DEF Seen
  <2>2. marks \in Seq(Seen) BY EmptySeq
  <2> QED BY <2>1, <2>2, BoundsAssumption DEF WorldInv, ItemStates
<1>2. WorkInv
  <2>1. MaxDeliveries \in Nat BY BoundsAssumption
  <2>2. Waiting \in Seq(Sound) /\ Shape(Waiting) BY EmptyShape DEF Waiting
  <2> QED BY <2>1, <2>2 DEF WorkInv, Claims, HandedOnRarely, ClaimOK, OneDelivery, Seen
<1>3. DiscardedIsHeld BY DEF DiscardedIsHeld
<1>4. BuildInv
  <2>1. /\ count = [kills |-> 0, retries |-> 0, switches |-> 0, updates |-> 0, reloads |-> 0]
        /\ stale = FALSE /\ reloaded = FALSE
    OBVIOUS
  <2> HIDE DEF Init
  <2>2. count.reloads = 0 /\ count.updates = 0 BY <2>1
  <2>3. count \in [kills : Nat, retries : Nat, switches : Nat, updates : Nat, reloads : Nat] BY <2>1
  <2>4. ~stale /\ stale \in BOOLEAN /\ reloaded \in BOOLEAN BY <2>1
  <2>5. count.reloads <= count.updates BY <2>2
  <2> QED BY <2>3, <2>4, <2>5 DEF BuildInv
<1> QED BY <1>1, <1>2, <1>3, <1>4 DEF IInv

LEMMA InvAlways == Spec => []IInv
<1>1. IInv /\ [Next]_vars => IInv'
  BY WorldInductive, WorkInductive, DiscardedInductive, BuildInductive DEF IInv
<1> QED BY <1>1, Initial, PTL DEF Spec

----------------------------------------------------------------------------
(* The theorems.                                                                *)

\* Whatever the worker's stops, the user's retries and the builds come between, a claim is
\* delivered by one run at a time and handed to the bucket MaxDeliveries times at most, and a
\* stale build reloads once (downloads.ts begin, deliver, resume; bucket-status.ts).
THEOREM ClaimsSoundAlways == Spec => []ClaimsSound
<1>1. ASSUME IInv PROVE ClaimsSound
  <2>1. TypeOK
    <3>1. \A r \in Responses : req[r] = Nothing \/ req[r] \in [url : Urls, tab : Tabs, kind : Kinds[r]]
      BY <1>1 DEF IInv, WorldInv
    <3>2. ToSet(marks) \cup held \subseteq Responses
      <4>1. \A i \in DOMAIN marks : marks[i] \in Responses
        BY <1>1, ElementOfSeq, LenProperties DEF IInv, WorldInv, Seen
      <4> QED BY <1>1, <4>1 DEF ToSet, IInv, WorldInv, Seen
    <3> QED BY <1>1, <3>1, <3>2 DEF TypeOK, IInv, WorldInv, WorkInv, Claims
  <2>2. ReloadsEnd BY <1>1 DEF ReloadsEnd, IInv, BuildInv
  <2> QED BY <1>1, <2>1, <2>2 DEF ClaimsSound, IInv, WorkInv
<1> QED BY <1>1, InvAlways, PTL

\* A download the extension threw away is one whose PDF the bucket holds, or whose frame was too
\* small and is handed back to the browser, unless the worker is stopped in between: the file goes
\* first (background.ts captureDownload, discard).
THEOREM DiscardedIsHeldAlways == Spec => []DiscardedIsHeld
<1>1. IInv => DiscardedIsHeld BY DEF IInv
<1> QED BY <1>1, InvAlways, PTL

-----------------------------------------------------------------------------
(* What the browsers take for a PDF.                                             *)

\* What the patterns of Chrome's rules ask of the headers.
PatternsMatch(a) ==
    \/ a.content \in MediaTypePatterns("pdf")
    \/ a.path /\ GenericOrAbsent(a)
    \/ a.disposition \cap DispositionPatterns # {} /\ GenericOrAbsent(a)

\* The priorities of the rules come to this: a PDF navigation that is not exempted and not the
\* bucket's own is downloaded.
LEMMA RulesDecide ==
    ASSUME NEW a
    PROVE  ChromeDownloads(a) <=>
              /\ a.type \in PdfFrameTypes /\ a.method = "GET" /\ ~a.exempted /\ ~a.own
              /\ PatternsMatch(a)
<1> DEFINE R == PdfCaptureRules
           C(n) == Condition(R[n], a)
           Navigates == a.type \in PdfFrameTypes
<1>1. /\ DOMAIN R = 1..5
      /\ R[1].action = "allow" /\ R[2].action = "allow"
      /\ R[3].action = "download" /\ R[4].action = "download" /\ R[5].action = "download"
      /\ R[1].name = "exemption" /\ R[2].name = "bucket" /\ R[3].name = "type" /\ R[4].name = "path"
      /\ R[5].name = "disposition"
  BY DEF PdfCaptureRules
<1> HIDE DEF R
<1>2. C(1) <=> Navigates /\ a.exempted BY <1>1 DEF Condition
<1>3. C(2) <=> Navigates /\ a.own BY <1>1 DEF Condition
<1>4. C(3) <=> Navigates /\ a.method = "GET" /\ a.content \in MediaTypePatterns("pdf")
  BY <1>1 DEF Condition
<1>5. C(4) <=> Navigates /\ a.method = "GET" /\ a.path /\ GenericOrAbsent(a)
  BY <1>1 DEF Condition
<1>6. C(5) <=> /\ Navigates /\ a.method = "GET"
               /\ a.disposition \cap DispositionPatterns # {} /\ GenericOrAbsent(a)
  BY <1>1 DEF Condition
<1>7. ChromeDownloads(a) <=> \E n \in 1..5 : C(n) /\ (\A m \in 1..n - 1 : ~C(m)) /\ R[n].action = "download"
  BY <1>1 DEF ChromeDownloads, R
<1> HIDE DEF C, Navigates
<1>8. ChromeDownloads(a) <=> ~C(1) /\ ~C(2) /\ (C(3) \/ C(4) \/ C(5))
  <2>1. ASSUME NEW n \in 1..5, C(n), \A m \in 1..n - 1 : ~C(m), R[n].action = "download"
        PROVE  ~C(1) /\ ~C(2) /\ (C(3) \/ C(4) \/ C(5))
    <3>1. n \in {3, 4, 5} BY <1>1, <2>1
    <3>2. 1 \in 1..n - 1 /\ 2 \in 1..n - 1 BY <3>1
    <3> QED BY <2>1, <3>1, <3>2
  <2>2. ASSUME ~C(1), ~C(2), C(3)
        PROVE  \E n \in 1..5 : C(n) /\ (\A m \in 1..n - 1 : ~C(m)) /\ R[n].action = "download"
    <3>1. \A m \in 1..3 - 1 : m = 1 \/ m = 2 OBVIOUS
    <3> QED BY <1>1, <2>2, <3>1
  <2>3. ASSUME ~C(1), ~C(2), ~C(3), C(4)
        PROVE  \E n \in 1..5 : C(n) /\ (\A m \in 1..n - 1 : ~C(m)) /\ R[n].action = "download"
    <3>1. \A m \in 1..4 - 1 : m = 1 \/ m = 2 \/ m = 3 OBVIOUS
    <3> QED BY <1>1, <2>3, <3>1
  <2>4. ASSUME ~C(1), ~C(2), ~C(3), ~C(4), C(5)
        PROVE  \E n \in 1..5 : C(n) /\ (\A m \in 1..n - 1 : ~C(m)) /\ R[n].action = "download"
    <3>1. \A m \in 1..5 - 1 : m = 1 \/ m = 2 \/ m = 3 \/ m = 4 OBVIOUS
    <3> QED BY <1>1, <2>4, <3>1
  <2> QED BY <1>7, <2>1, <2>2, <2>3, <2>4
<1> QED BY <1>2, <1>3, <1>4, <1>5, <1>6, <1>8 DEF PatternsMatch, Navigates

\* The patterns of the rules and the parsed headers decide alike, but for what no parser accepts;
\* a parser accepts nothing the patterns miss.
LEMMA PatternsAreHeaders ==
    ASSUME NEW a \in Answers
    PROVE  /\ a.content[2] # "unparsed" => (PatternsMatch(a) <=> IsPdfResponse(a))
           /\ IsPdfResponse(a) => PatternsMatch(a)
<1>1. a.content \in ContentTypes BY DEF Answers
<1>2. PICK f, w : /\ a.content = <<f, w>> /\ w \in Writings
                  /\ f \in Families \/ (f = "absent" /\ w = "bare")
  BY <1>1 DEF ContentTypes, Writings
<1>3. a.content[1] = f /\ a.content[2] = w BY <1>2
<1>4. \A g \in Families : a.content \in MediaTypePatterns(g) <=> f = g
  BY <1>2 DEF MediaTypePatterns, Writings
<1>5. "pdf" \in Families /\ "generic" \in Families BY DEF Families
<1>6. GenericOrAbsent(a) <=> f \in {"absent", "generic"} BY <1>3, <1>4, <1>5 DEF GenericOrAbsent
<1>7. MediaType(a) = IF w = "unparsed" THEN <<f, w>> ELSE <<f, "bare">> BY <1>2, <1>3 DEF MediaType
<1>8. PdfType(a) <=> w # "unparsed" /\ f = "pdf" BY <1>7 DEF PdfType
<1>9. GenericOrAbsentType(a) <=> w # "unparsed" /\ f \in {"absent", "generic"}
  BY <1>7 DEF GenericOrAbsentType
<1>10. {"double", "single", "end"} = DispositionPatterns BY DEF DispositionPatterns
<1>11. PatternsMatch(a) <=> \/ f = "pdf"
                            \/ f \in {"absent", "generic"} /\ (a.path \/ a.disposition \cap DispositionPatterns # {})
  BY <1>4, <1>5, <1>6 DEF PatternsMatch
<1>12. IsPdfResponse(a) <=> /\ w # "unparsed"
                            /\ \/ f = "pdf"
                               \/ /\ f \in {"absent", "generic"}
                                  /\ a.path \/ a.disposition \cap DispositionPatterns # {}
  BY <1>8, <1>9, <1>10 DEF IsPdfResponse, PdfPath, PdfDisposition
<1> QED BY <1>3, <1>11, <1>12

LEMMA BrowsersDecideAlike == BrowsersAgree
<1> SUFFICES ASSUME NEW a \in Answers
             PROVE  /\ a.content[2] # "unparsed" =>
                          /\ a.type \in PdfFrameTypes => (ChromeDownloads(a) <=> FirefoxTakes(a))
                          /\ ChromeDownloads(a) => ChromeMarks(a)
                    /\ FirefoxTakes(a) => ChromeDownloads(a)
  BY DEF BrowsersAgree
<1>1. /\ a.content[2] # "unparsed" => (PatternsMatch(a) <=> IsPdfResponse(a))
      /\ IsPdfResponse(a) => PatternsMatch(a)
  BY PatternsAreHeaders
<1> QED BY <1>1, RulesDecide DEF FirefoxTakes, ChromeMarks

\* Chrome and Firefox take the same answers for PDFs (interception.ts), and what they take is
\* claimed, delivered and handed on as it should be.
THEOREM CapturesSoundHolds == Spec => []CapturesSound
<1>1. BrowsersAgree BY BrowsersDecideAlike
<1>2. ClaimsSound => CapturesSound BY <1>1 DEF CapturesSound
<1> QED BY <1>2, ClaimsSoundAlways, PTL
=============================================================================
