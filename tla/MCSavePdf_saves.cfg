\* Two windows, metadata recorded once and the app restarted once.
CONSTANTS
    w1 = w1
    w2 = w2
    e1 = e1
    e2 = e2
    e3 = e3
    k1 = k1
    k2 = k2
    m1 = m1
    None = None
    Unwritten = Unwritten
    Windows = {w1, w2}
    Keeps = {k1}
    Edits = {e1, e2}
    Metas = {m1}
    Careful = TRUE
    MaxRestarts = 1
SPECIFICATION FairSpec
INVARIANTS
    TypeOK
    NothingLostQuietly
PROPERTIES
    NoSilentOverwrite
    MetadataNeverUndone
    SettleEnds
\* Every tab may be closed and every edit drawn.
CHECK_DEADLOCK FALSE
