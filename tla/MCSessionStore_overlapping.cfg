\* Calls overlap: updates, deletions and wipes of two sessions under one key, one crash.
SPECIFICATION FairSpec
CONSTANTS
    s1 = s1
    s2 = s2
    s3 = s3
    k1 = k1
    k2 = k2
    u1 = u1
    Sessions = {s1, s2}
    APIKeys = {k1}
    Key <- OneKey
    User <- SameUser
    Conns = {a}
    Workers = {w1}
    Environment <- Overlapping
    MaxDeletes = 1
    MaxCrashes = 1
    Free = Free
    None = None
INVARIANTS Durable
PROPERTIES ExpiredCleared
CHECK_DEADLOCK FALSE
