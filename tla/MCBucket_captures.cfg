\* Captures of the same PDF and of another one under the same name, while an
\* item is deleted and a note added.
CONSTANTS
    k1 = k1
    k2 = k2
    u1 = u1
    u2 = u2
    u3 = u3
    App = App
    None = None
    Keys = {k1, k2}
    Uploads = {u1, u2, u3}
    Original <- SharedOriginal
    Candidate <- SharedCandidate
    Deletes = {d1}
    Forgets = {}
    Rebuilds = {}
    Filings = {n1}
    CliExports = {}
    Cli = {}
    Cancellable = {}
    Patient = TRUE
    MaxLosses = 0
    MaxCrashes = 0
SPECIFICATION Spec
INVARIANTS
    TypeOK
    OneCopy
    RemovedStoredInFlight
    FilingOwned
    DeliberateNeverMissing
\* Requests are served once each: the app then idles.
CHECK_DEADLOCK FALSE
