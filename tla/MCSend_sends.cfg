\* A send, a send with extraction, a PDF sent alone and a run of a plugin.
CONSTANTS
    s1 = s1
    s2 = s2
    x1 = x1
    o1 = o1
    d1 = d1
    u1 = u1
    n1 = n1
    n2 = n2
    p1 = p1
    p2 = p2
    None = None
    Sends = {s1}
    Extracts = {x1}
    PdfOnlys = {o1}
    Deletes = {}
    Runs = {u1}
    WithArtifacts = {x1}
    CutOff = {u1}
    Notes = {n1}
    Pdfs = {p1, p2}
    Patient = FALSE
    MaxMarks = 1
SPECIFICATION Spec
INVARIANTS
    TypeOK
    RecordTrue
    MarkdownComplete
PROPERTIES
    NeverTwice
    
    PdfAlways
\* Every request is served once, and then nothing may be left to do.
CHECK_DEADLOCK FALSE
SYMMETRY Alike
