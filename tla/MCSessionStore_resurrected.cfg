\* A session may be deleted while it is updated: it comes back in the database.
SPECIFICATION Spec
CONSTANTS
    s1 = s1
    s2 = s2
    s3 = s3
    k1 = k1
    k2 = k2
    u1 = u1
    Sessions = {s1, s2}
    APIKeys = {k1}
    Key <- OneKey
    User <- SameUser
    Conns = {a}
    Workers = {w1}
    Environment <- DeleteInFlight
    MaxDeletes = 1
    MaxCrashes = 1
    Free = Free
    None = None
INVARIANTS DeletedStaysDeleted
CHECK_DEADLOCK FALSE
