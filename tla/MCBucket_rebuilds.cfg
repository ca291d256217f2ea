\* A lost PDF is rebuilt while the same PDF is captured under another name;
\* the delete and the rebuild may be cut off, and export-index runs beside the app.
CONSTANTS
    k1 = k1
    k2 = k2
    u1 = u1
    u2 = u2
    u3 = u3
    App = App
    None = None
    Keys = {k1, k2}
    Uploads = {u1, u2}
    Original <- PairOriginal
    Candidate <- RenamedCandidate
    Deletes = {d1}
    Forgets = {}
    Rebuilds = {r1}
    Filings = {}
    CliExports = {c1}
    Cli = {}
    Cancellable = {d1, r1}
    Patient = TRUE
    MaxLosses = 1
    MaxCrashes = 0
SPECIFICATION Spec
PROPERTIES
    FreshCapture
    NeverOverwritten
\* Requests are served once each: the app then idles.
CHECK_DEADLOCK FALSE
