----------------------------- MODULE Extension -----------------------------
(***************************************************************************)
(* The capture extension of src/extension: PDF responses marked as they    *)
(* arrive, the downloads the browser makes of them claimed and handed to   *)
(* the bucket (downloads.ts, background.ts), PDFs kept for a capture page  *)
(* in Firefox (firefox-interception.ts), PDFs handed back to the browser   *)
(* (exemptions.ts), the capture switch, and a stale build's replacement    *)
(* (bucket-status.ts).                                                     *)
(*                                                                         *)
(* A response is one PDF the browser receives; its download, if it becomes *)
(* one, has its name. Chrome may stop the background (its service worker)  *)
(* at any await of a delivery; session storage (marks, claims, exemptions) *)
(* survives that, the worker's own state does not. Operations under the    *)
(* mutex of downloads.ts run one at a time, in the order they were queued. *)
(***************************************************************************)
EXTENDS Integers, Sequences, FiniteSets, SequencesExt

CONSTANTS
    Responses,      \* the PDF responses the browser may receive, numbered in order
    Urls, Tabs,     \* what they are fetched from, and where
    Kinds,          \* how each response may be asked for, of AllKinds
    Browsers,       \* the browsers the extension may run in
    MaxDeliveries,  \* deliveries before a capture counts as lost
    MaxKills,       \* how often a busy worker is stopped
    MaxRetries,     \* how often the user resumes an interrupted download
    MaxSwitches,    \* how often the user flips the capture switch
    MaxUpdates,     \* how often a newer build of the extension is provisioned
    MaxDisturbances \* how often any of these happens, together

AllKinds == {"page", "frame", "small", "link"}
ASSUME BoundsAssumption ==
    /\ Responses \subseteq Nat
    /\ Kinds \in [Responses -> SUBSET AllKinds]
    /\ Browsers \subseteq {"chrome", "firefox"}
    /\ MaxDeliveries \in Nat \ {0}
    /\ {MaxKills, MaxRetries, MaxSwitches, MaxUpdates, MaxDisturbances} \subseteq Nat

VARIABLES
    browser,    \* the browser of this behaviour
    req,        \* what each response is: its URL, its tab, its kind
    item,       \* what the browser made of each: a download's state and file, a page
    open,       \* the tabs still open
    events,     \* browser events waiting for the background to start, in order
    enabled,    \* the stored capture switch
    capturing,  \* the switch as the running background knows it (and its rules)
    marks,      \* responses waiting for their download, oldest first
    claims,     \* claimed downloads: whose mark it took, deliveries begun
    exempt,     \* (tab, URL) pairs handed back to the browser's viewer
    held,       \* Firefox: responses kept for the capture page that asks
    up,         \* whether the background runs
    queue,      \* operations waiting for the mutex
    runs,       \* deliveries and captures in progress in this background
    stale,      \* whether another build is provisioned than the one loaded
    reloaded,   \* whether this build reloaded for the provisioned one
    stored,     \* the URLs whose PDF the bucket holds
    told,       \* how each response was seen to end, and what became of its frame
    posts,      \* how often the bucket was handed each download (auxiliary)
    count       \* kills, retries, switches, updates, reloads so far (bounds)

worker == <<up, queue, runs, capturing>>
session == <<marks, claims, exempt, held>>
world == <<browser, req, item, open>>
build == <<stale, reloaded>>
ledger == <<stored, told, posts>>
vars == <<world, events, enabled, worker, session, build, ledger, count>>

Nothing == [url |-> "none", tab |-> "none", kind |-> "none"]
ItemStates == {"none", "shown", "running", "rerun", "complete", "interrupted",
               "removed", "erased"}
Pcs == {"search", "check", "post", "remove", "erase", "hand", "show", "report", "release"}
Outcomes == {"none", "small", "stored", "failed"}
Ends == {"failed", "native", "shown", "handed", "cut"}
Runs == [d : Responses, of : Responses, n : 0 .. MaxDeliveries + 1, pc : Pcs,
         kind : {"none", "complete", "interrupted", "lost", "page"}, out : Outcomes]

InFrame(r) == req[r].kind \in {"frame", "small"}
Place(r) == <<req[r].tab, req[r].url>>
FrameGone(r) == req[r].tab \notin open
Bounded(field, max) ==
    /\ count[field] < max
    /\ count.kills + count.retries + count.switches + count.updates < MaxDisturbances
    /\ count' = [count EXCEPT ![field] = @ + 1]

----------------------------------------------------------------------------
(* The browser: responses, downloads, tabs. *)

Operation(ev, r) == [op |-> ev, d |-> r, of |-> r]

\* Browser events reach a running background at once, whose listeners queue an
\* operation each; they start a stopped one.
Raise(evs) == IF up THEN queue' = queue \o evs /\ UNCHANGED events
              ELSE events' = events \o evs /\ UNCHANGED queue

Captures(p) == capturing /\ p \notin exempt

\* A GET answered with a PDF. Chrome's rules turn a captured navigation into a
\* download; a link's `download` attribute makes one in both browsers. Firefox's
\* listener decides at once whether it captures, Chrome's when its mark is due.
Respond(r) ==
    /\ item[r] = "none" /\ \A s \in Responses : s < r => item[s] # "none"
    /\ \E u \in Urls, t \in open, k \in Kinds[r] :
         LET saved == k = "link" \/ (browser = "chrome" /\ Captures(<<t, u>>))
         IN  /\ browser = "firefox" => up /\ k # "small"
             /\ req' = [req EXCEPT ![r] = [url |-> u, tab |-> t, kind |-> k]]
             /\ item' = [item EXCEPT ![r] = IF saved THEN "running" ELSE "shown"]
             /\ Raise((IF browser = "firefox" /\ ~Captures(<<t, u>>) THEN <<>>
                       ELSE <<Operation("mark", r)>>) \o
                      (IF saved THEN <<Operation("claim", r)>> ELSE <<>>))
    /\ UNCHANGED <<browser, open, enabled, up, runs, capturing, session, build, ledger, count>>

Download(r, from, to) ==
    /\ item[r] \in from
    /\ item' = [item EXCEPT ![r] = to]
    /\ UNCHANGED <<browser, req, open, enabled, up, runs, capturing, session, build, ledger>>

\* The download ends; the user may resume one the browser gave up on.
Ended(r) == Raise(<<Operation("begin", r)>>) /\ UNCHANGED count
Complete(r) == Download(r, {"running", "rerun"}, "complete") /\ Ended(r)
Interrupt(r) == Download(r, {"running"}, "interrupted") /\ Ended(r)
Resumed(r) == /\ Download(r, {"interrupted"}, "rerun")
              /\ Bounded("retries", MaxRetries) /\ UNCHANGED <<events, queue>>

\* The user closes a tab: its exemptions and its kept responses go (release).
CloseTab(t) ==
    /\ t \in open
    /\ up
    /\ open' = open \ {t}
    /\ exempt' = {e \in exempt : e[1] # t}
    /\ held' = {r \in held : req[r].tab # t}
    /\ UNCHANGED <<browser, req, item, events, enabled, worker, marks, claims, build, ledger, count>>

----------------------------------------------------------------------------
(* The operations under the mutex. *)

\* Marks older than the link-origin age go; Chrome asks now whether it captures.
Mark(r) ==
    IF browser = "chrome" /\ ~Captures(Place(r))
    THEN UNCHANGED <<marks, held>>
    ELSE /\ \E old \in 0 .. Len(marks) :
              marks' = Append(SubSeq(marks, old + 1, Len(marks)), r)
         /\ held' = IF browser = "firefox" THEN held \cup {r} ELSE held

\* The download of a URL takes the oldest mark for it ...
Mine(d) == {i \in 1 .. Len(marks) : req[marks[i]].url = req[d].url}
Claim(d) ==
    IF Mine(d) = {} THEN queue' = Tail(queue) /\ UNCHANGED marks
    ELSE \E i \in Mine(d) :
         /\ \A j \in Mine(d) : i <= j
         /\ marks' = RemoveAt(marks, i)
         /\ queue' = <<[op |-> "write", d |-> d, of |-> marks[i]]>> \o Tail(queue)

\* A bug it could have: the count starts one too low.
WriteUncounted(d, of) == claims' = [claims EXCEPT ![d] = [of |-> of, n |-> -1]]
\* ... and then writes its claim: two writes, between which the worker may stop.
Write(d, of) == claims' = [claims EXCEPT ![d] = [of |-> of, n |-> 0]]

Delivery(d, of, n) == [d |-> d, of |-> of, n |-> n, pc |-> "search", kind |-> "none", out |-> "none"]
None == [of |-> 0, n |-> -1]

\* A bug it could have: a delivery already begun begins again.
BeginTwice(d) ==
    IF claims[d] = None THEN UNCHANGED <<claims, runs>>
    ELSE /\ claims' = [claims EXCEPT ![d].n = 1]
         /\ runs' = runs \cup {Delivery(d, claims[d].of, 1)}
Begin(d) ==
    IF claims[d] = None \/ claims[d].n > 0 THEN UNCHANGED <<claims, runs>>
    ELSE /\ claims' = [claims EXCEPT ![d].n = 1]
         /\ runs' = runs \cup {Delivery(d, claims[d].of, 1)}

\* Counts past MaxDeliveries are one: each hands the capture on as lost.
Again(n) == IF n > MaxDeliveries THEN n ELSE n + 1
\* A bug it could have: what has not begun is taken up, what has begun is not.
BegunNot == {d \in Responses : claims[d].n = 0}
Begun == {d \in Responses : claims[d].n > 0}
Resume ==
    /\ claims' = [d \in Responses |->
          IF d \in Begun THEN [claims[d] EXCEPT !.n = Again(@)] ELSE claims[d]]
    /\ runs' = runs \cup {Delivery(d, claims[d].of, Again(claims[d].n)) : d \in Begun}

Release(d) == /\ claims' = [claims EXCEPT ![d] = None]
              /\ runs' = {run \in runs : ~(run.d = d /\ run.pc = "release")}

\* The operation that holds the mutex.
Exclusive ==
    /\ up
    /\ queue # <<>>
    /\ LET q == Head(queue)
       IN  CASE q.op = "mark" -> Mark(q.d) /\ queue' = Tail(queue) /\ UNCHANGED <<claims, runs>>
             [] q.op = "claim" -> Claim(q.d) /\ UNCHANGED <<claims, runs, held>>
             [] q.op = "write" -> Write(q.d, q.of) /\ queue' = Tail(queue) /\ UNCHANGED <<marks, held, runs>>
             [] q.op = "begin" -> Begin(q.d) /\ queue' = Tail(queue) /\ UNCHANGED <<marks, held>>
             [] q.op = "resume" -> Resume /\ queue' = Tail(queue) /\ UNCHANGED <<marks, held>>
             [] q.op = "release" -> Release(q.d) /\ queue' = Tail(queue) /\ UNCHANGED <<marks, held>>
    /\ UNCHANGED <<world, events, enabled, up, capturing, exempt, build, ledger, count>>

----------------------------------------------------------------------------
(* A delivery (downloads.ts deliver, background.ts captureDownload) and the *)
(* capture a Firefox capture page asks for (capture), await by await.       *)

Step(run, next) == runs' = (runs \ {run}) \cup {next}
Goto(run, pc) == Step(run, [run EXCEPT !.pc = pc])
Settle(run, out, pc) == Step(run, [run EXCEPT !.out = out, !.pc = pc])
Throw(run) == runs' = runs \ {run}     \* an uncaught error: the claim stays
Free(run) == Goto(run, "release") /\ queue' = Append(queue, [op |-> "release", d |-> run.d, of |-> run.d])
At(run, pc) == up /\ run.pc = pc
Keep == UNCHANGED <<browser, req, open, events, enabled, up, capturing, marks, claims, build, count>>
Tell(r, what) == told' = [told EXCEPT ![r] = @ \cup {what}]

\* A bug it could have: one delivery too many.
KindOfLate(run) == IF run.n > MaxDeliveries + 1 THEN "lost" ELSE item[run.d]
KindOf(run) == IF run.n > MaxDeliveries THEN "lost" ELSE item[run.d]
\* The download as the browser lists it now, and the size of its frame: scripts
\* run in a frame that is gone reject.
Search(run) ==
    /\ At(run, "search")
    /\ \/ item[run.d] = "erased" /\ Free(run)
       \/ /\ item[run.d] # "erased"
          /\ IF KindOf(run) \in {"running", "rerun"} \/ (InFrame(run.of) /\ FrameGone(run.of))
             THEN Throw(run)
             ELSE Step(run, [run EXCEPT
                    !.kind = IF KindOf(run) = "removed" THEN "complete" ELSE KindOf(run),
                    !.out = IF req[run.of].kind = "small" THEN "small" ELSE "none",
                    !.pc = IF req[run.of].kind # "small" THEN "check"
                           ELSE IF KindOf(run) = "interrupted" THEN "erase" ELSE "remove"])
          /\ UNCHANGED queue
    /\ Keep /\ UNCHANGED <<item, exempt, held, ledger>>

\* What a check of the bucket finds (checkBucket): whether another build is
\* provisioned it says only when it answers.
BucketStates == IF stale THEN {"stale", "unreachable"} ELSE {"ready", "unreachable"}

\* A stale build refuses; an interrupted or lost download fails; a capture page
\* takes the response kept for it, once.
Check(run) ==
    /\ At(run, "check")
    /\ \E state \in BucketStates :
          /\ IF \/ state = "stale" \/ run.kind \in {"interrupted", "lost"}
                \/ run.kind = "page" /\ run.of \notin held
             THEN Settle(run, "failed", "report") ELSE Goto(run, "post")
          /\ held' = IF state = "stale" \/ run.kind # "page" THEN held ELSE held \ {run.of}
    /\ Keep /\ UNCHANGED <<item, queue, exempt, ledger>>

\* A bug it could have: any answer counts as stored.
PostBlind(run) ==
    /\ At(run, "post")
    /\ stored' \in {stored, stored \cup {req[run.of].url}}
    /\ Settle(run, "stored", "remove")
    /\ UNCHANGED posts
    /\ Keep /\ UNCHANGED <<item, queue, exempt, held, told>>
\* The bucket stores the PDF, or it refuses, is not reachable, or finds no file.
\* A stored download goes; a capture page leaves its tab or links to the reader.
Post(run) ==
    /\ At(run, "post")
    /\ \/ /\ item[run.d] # "removed"
          /\ stored' = stored \cup {req[run.of].url}
          /\ IF run.kind = "page" THEN Throw(run) ELSE Settle(run, "stored", "remove")
       \/ Settle(run, "failed", "report") /\ UNCHANGED stored
    /\ posts' = [posts EXCEPT ![run.d] = IF run.kind = "page" THEN @ ELSE @ + 1]
    /\ Keep /\ UNCHANGED <<item, queue, exempt, held, told>>

\* downloads.removeFile rejects when the file is gone.
RemoveFile(run) ==
    /\ At(run, "remove")
    /\ IF item[run.d] = "removed" THEN Throw(run) /\ UNCHANGED item
       ELSE Goto(run, "erase") /\ item' = [item EXCEPT ![run.d] = "removed"]
    /\ Keep /\ UNCHANGED <<queue, exempt, held, ledger>>

Erase(run) ==
    /\ At(run, "erase")
    /\ item' = [item EXCEPT ![run.d] = "erased"]
    /\ CASE run.out = "small" -> Goto(run, "hand") /\ UNCHANGED queue
         [] run.out = "stored" /\ InFrame(run.of) -> Goto(run, "show") /\ UNCHANGED queue
         [] OTHER -> Free(run)
    /\ Keep /\ UNCHANGED <<exempt, held, ledger>>

\* A frame too small to read in: its tab may open the PDF from now on.
Hand(run) ==
    /\ At(run, "hand")
    /\ exempt' = exempt \cup {Place(run.of)}
    /\ held' = {r \in held : Place(r) # Place(run.of)}
    /\ Goto(run, "show")
    /\ Tell(run.of, "handed")
    /\ Keep /\ UNCHANGED <<item, queue, stored, posts>>

Show(run) ==
    /\ At(run, "show")
    /\ IF FrameGone(run.of) THEN Throw(run) /\ UNCHANGED <<queue, told>>
       ELSE Free(run) /\ Tell(run.of, IF run.out = "small" THEN "native" ELSE "shown")
    /\ Keep /\ UNCHANGED <<item, exempt, held, stored, posts>>

\* A failure: in the frame, in a new tab, or in the capture page itself.
Report(run) ==
    /\ At(run, "report")
    /\ IF (InFrame(run.of) \/ run.kind = "page") /\ FrameGone(run.of)
       THEN Throw(run) /\ UNCHANGED <<queue, told>>
       ELSE /\ Tell(run.of, "failed")
            /\ IF run.kind = "page" THEN Throw(run) /\ UNCHANGED queue ELSE Free(run)
    /\ Keep /\ UNCHANGED <<item, exempt, held, stored, posts>>

Deliver(run) ==
    \/ Search(run) \/ Check(run) \/ Post(run) \/ RemoveFile(run)
    \/ Erase(run) \/ Hand(run) \/ Show(run) \/ Report(run)

----------------------------------------------------------------------------
(* Firefox's capture page, and opening a PDF in the browser's own viewer.   *)

\* The frame's document has arrived whole and loads the capture page, which asks.
Ask(r) ==
    /\ up
    /\ r \in held
    /\ req[r].kind # "link"
    /\ told[r] = {}
    /\ ~\E run \in runs : run.d = r
    /\ runs' = runs \cup {[Delivery(r, r, 0) EXCEPT !.pc = "check", !.kind = "page"]}
    /\ Keep /\ UNCHANGED <<item, queue, exempt, held, ledger>>

\* "Open in the browser" of a failure, which the background answers.
OpenNatively(r) ==
    /\ up
    /\ "failed" \in told[r]
    /\ Place(r) \notin exempt
    /\ ~FrameGone(r)
    /\ exempt' = exempt \cup {Place(r)}
    /\ held' = {h \in held : Place(h) # Place(r)}
    /\ Keep /\ UNCHANGED <<item, runs, queue, ledger>>

----------------------------------------------------------------------------
(* The background's life, the switch and the builds. *)

\* The download of a frame too small goes, and the frame is not yet handed back: what
\* stops the worker here leaves it neither (cut).
HandingBack(run) == run.out = "small" /\ run.pc \in {"erase", "hand"}
CutShort(r) == \E run \in runs : run.of = r /\ HandingBack(run)
Down ==
    /\ up' = FALSE /\ queue' = <<>> /\ runs' = {} /\ UNCHANGED capturing
    /\ told' = [r \in Responses |-> IF CutShort(r) THEN told[r] \cup {"cut"} ELSE told[r]]
Idle == runs = {} /\ queue = <<>>

\* Chrome stops an idle worker, and one whose fetch takes too long.
StopIdle ==
    /\ up /\ browser = "chrome" /\ Idle
    /\ Down
    /\ UNCHANGED <<world, events, enabled, session, build, stored, posts, count>>
Kill ==
    /\ up /\ browser = "chrome" /\ ~Idle
    /\ Bounded("kills", MaxKills)
    /\ Down
    /\ UNCHANGED <<world, events, enabled, session, build, stored, posts>>

\* An event or the alarm starts it: the stored switch is read, the claims of
\* deliveries begun before are taken up first.
Start ==
    /\ ~up
    /\ up' = TRUE
    /\ capturing' = enabled
    /\ queue' = <<Operation("resume", 0)>> \o events
    /\ events' = <<>>
    /\ UNCHANGED <<world, enabled, runs, session, build, ledger, count>>

Switch ==
    /\ Bounded("switches", MaxSwitches)
    /\ enabled' = ~enabled
    /\ UNCHANGED <<world, events, worker, session, build, ledger>>
\* The watch of the stored switch: the rules, then what the background knows.
SetEnabled ==
    /\ up
    /\ capturing # enabled
    /\ capturing' = enabled
    /\ UNCHANGED <<world, events, enabled, up, queue, runs, session, build, ledger, count>>

Provision ==
    /\ Bounded("updates", MaxUpdates)
    /\ stale' = TRUE
    /\ reloaded' = FALSE
    /\ UNCHANGED <<world, events, enabled, worker, session, ledger>>

\* A bug it could have: the reload comes before the note that it was made.
ReloadFirst ==
    /\ up /\ stale
    /\ browser = "chrome" => ~reloaded
    /\ stale' \in IF browser = "chrome" THEN BOOLEAN ELSE {FALSE}
    /\ count' = [count EXCEPT !.reloads = @ + 1]
    /\ Down
    /\ events' = <<>> /\ marks' = <<>> /\ exempt' = {} /\ held' = {}
    /\ claims' = [d \in Responses |-> None]
    /\ UNCHANGED <<world, enabled, stored, posts, reloaded>>
\* A refresh of the badge finds a newer build provisioned: Chromium reloads the
\* extension, once for each build, and Firefox installs the build itself. Either
\* clears session storage. A reload from another directory changes nothing.
Reload ==
    /\ up /\ stale
    /\ browser = "chrome" => ~reloaded
    /\ reloaded' = TRUE
    /\ stale' \in IF browser = "chrome" THEN BOOLEAN ELSE {FALSE}
    /\ count' = [count EXCEPT !.reloads = @ + 1]
    /\ Down
    /\ events' = <<>> /\ marks' = <<>> /\ exempt' = {} /\ held' = {}
    /\ claims' = [d \in Responses |-> None]
    /\ UNCHANGED <<world, enabled, stored, posts>>

Init ==
    /\ browser \in Browsers
    /\ req = [r \in Responses |-> Nothing]
    /\ item = [r \in Responses |-> "none"]
    /\ open = Tabs
    /\ events = <<>> /\ enabled = TRUE /\ capturing = TRUE
    /\ marks = <<>> /\ claims = [d \in Responses |-> None] /\ exempt = {} /\ held = {}
    /\ up = TRUE /\ queue = <<>> /\ runs = {}
    /\ stale = FALSE /\ reloaded = FALSE
    /\ stored = {} /\ told = [r \in Responses |-> {}] /\ posts = [r \in Responses |-> 0]
    /\ count = [kills |-> 0, retries |-> 0, switches |-> 0, updates |-> 0, reloads |-> 0]

Next ==
    \/ \E r \in Responses : \/ Respond(r) \/ Complete(r) \/ Interrupt(r) \/ Resumed(r)
                            \/ Ask(r) \/ OpenNatively(r)
    \/ \E t \in Tabs : CloseTab(t)
    \/ Exclusive
    \/ \E run \in runs : Deliver(run)
    \/ StopIdle \/ Kill \/ Start \/ Switch \/ SetEnabled \/ Provision \/ Reload

\* Downloads end, queued work and deliveries go on, and an idle worker is
\* stopped and started by the alarm; nobody owes a kill, a click or an update.
Fairness ==
    /\ \A r \in Responses : WF_vars(Complete(r))
    /\ WF_vars(Exclusive) /\ WF_vars(Start) /\ WF_vars(StopIdle)
    /\ \A d \in Responses : WF_vars(\E run \in runs : run.d = d /\ Deliver(run))

Spec == Init /\ [][Next]_vars /\ Fairness

----------------------------------------------------------------------------
(* Properties *)

TypeOK ==
    /\ item \in [Responses -> ItemStates]
    /\ \A r \in Responses : req[r] = Nothing \/ req[r] \in [url : Urls, tab : Tabs, kind : Kinds[r]]
    /\ open \subseteq Tabs
    /\ ToSet(marks) \cup held \subseteq Responses
    /\ \A d \in Responses : claims[d] = None \/ claims[d] \in [of : Responses, n : 0 .. MaxDeliveries + 1]
    /\ runs \subseteq Runs
    /\ stored \subseteq Urls
    /\ told \in [Responses -> SUBSET Ends]

\* No download is delivered twice at once: neither the event that ends it twice
\* (interrupted, then complete) nor a worker that takes up the claims of the one
\* before begins a second delivery beside the first (downloads.ts begin, resume).
OneDelivery == \A x, y \in runs : x.d = y.d => x = y

\* A download the extension threw away is one whose PDF the bucket holds, or that came to
\* a frame too small, which was handed back to the browser, or is being, over every stop,
\* resumption and swap of marks. captureDownload throws it away first and hands the frame
\* back next: a worker stopped between the two leaves it cut, with neither.
DiscardedIsHeld ==
    \A d \in Responses : item[d] \in {"removed", "erased"} =>
        \/ req[d].url \in stored
        \/ \E r \in Responses :
              /\ req[r].kind = "small" /\ req[r].url = req[d].url
              /\ \/ told[r] \cap {"handed", "cut"} # {}
                 \/ \E run \in runs : run.d = d /\ run.of = r /\ HandingBack(run)

\* However often its worker is stopped, the bucket is handed a download at most
\* MaxDeliveries times; after that the capture counts as lost (deliver).
HandedOnRarely == \A d \in Responses : posts[d] <= MaxDeliveries

\* Chromium reloads a stale extension once for each build provisioned, also when
\* the reload brings the same build back (reloadStaleBuild).
ReloadsEnd == browser = "chrome" => count.reloads <= count.updates

\* In Chrome the claim of a download that came to no frame ends once its delivery has begun,
\* with an outcome or with the build it belongs to, however often its worker is
\* stopped and whatever the download does meanwhile (deliver, resume, release).
ClaimsEnd == \A d \in Responses :
    (browser = "chrome" /\ claims[d].n > 0 /\ ~InFrame(claims[d].of)) ~> claims[d] = None

\* A claim is delivered by one run at a time and handed on rarely, over every stop
\* and resumption of the worker (downloads.ts begin, deliver, resume) and every
\* reload of a stale build, of which there is one for each.
ClaimsSound == TypeOK /\ OneDelivery /\ HandedOnRarely /\ ReloadsEnd
=============================================================================
