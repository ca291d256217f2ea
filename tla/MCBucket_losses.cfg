\* Stored PDFs go missing while one is deleted and one forgotten.
CONSTANTS
    k1 = k1
    k2 = k2
    u1 = u1
    u2 = u2
    u3 = u3
    App = App
    None = None
    Keys = {k1, k2}
    Uploads = {u1, u2}
    Original <- OwnOriginal
    Candidate <- OwnCandidate
    Deletes = {d1}
    Forgets = {f1}
    Rebuilds = {}
    Filings = {}
    CliExports = {}
    Cli = {f1}
    Cancellable = {u2}
    Patient = TRUE
    MaxLosses = 2
    MaxCrashes = 0
SPECIFICATION Spec
PROPERTIES
    ExportKeepsLost
\* Requests are served once each: the app then idles.
CHECK_DEADLOCK FALSE
