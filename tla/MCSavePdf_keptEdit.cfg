\* An edit drawn while "Save my copy over it" is on its way.
CONSTANTS
    w1 = w1
    w2 = w2
    e1 = e1
    e2 = e2
    e3 = e3
    k1 = k1
    k2 = k2
    m1 = m1
    None = None
    Unwritten = Unwritten
    Windows = {w1, w2}
    Keeps = {k1}
    Edits = {e1, e2, e3}
    Metas = {}
    Careful = FALSE
    MaxRestarts = 0
SPECIFICATION Spec
SYMMETRY Alike
INVARIANTS
    NothingLostQuietly
CHECK_DEADLOCK FALSE
