\* The app may crash once: every request still ends and the export settles.
CONSTANTS
    k1 = k1
    k2 = k2
    u1 = u1
    u2 = u2
    u3 = u3
    App = App
    None = None
    Keys = {k1, k2}
    Uploads = {u1, u2}
    Original <- PairOriginal
    Candidate <- PairCandidate
    Deletes = {d1}
    Forgets = {}
    Rebuilds = {}
    Filings = {n1}
    CliExports = {}
    Cli = {}
    Cancellable = {}
    Patient = TRUE
    MaxLosses = 0
    MaxCrashes = 1
SPECIFICATION FairSpec
PROPERTIES
    RequestsEnd
    ExportSettles
\* Requests are served once each: the app then idles.
CHECK_DEADLOCK FALSE
