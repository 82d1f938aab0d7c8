\* Three sessions, two of them in turn under one key; calls on a session do not overlap.
SPECIFICATION Spec
CONSTANTS
    s1 = s1
    s2 = s2
    s3 = s3
    k1 = k1
    k2 = k2
    u1 = u1
    Sessions = {s1, s2, s3}
    APIKeys = {k1, k2}
    Key <- ReusedKey
    User <- SameUser
    Conns = {a}
    Workers = {w1, w2}
    Environment <- Separate
    MaxDeletes = 1
    MaxCrashes = 1
    Free = Free
    None = None
SYMMETRY Alike
INVARIANTS TypeOK DeletedStaysDeleted StoreAgrees WipedGone NoPanic
PROPERTIES ImplementsSessionService
CHECK_DEADLOCK FALSE
