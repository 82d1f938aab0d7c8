\* Disciplined clients: what the lock service promises.
SPECIFICATION Spec
CONSTANTS
    o1 = o1
    o2 = o2
    o3 = o3
    c1 = c1
    c2 = c2
    c3 = c3
    c4 = c4
    Owners = {o1, o2, o3}
    Clients = {c1, c2, c3, c4}
    Conn <- SharedConn
    Ids = {a, b}
    Lockers = {l1, l2}
    Environment <- Disciplined
    MaxEntries = 3
    NoClient = NoClient
    NoLocker = NoLocker
    NoId = NoId
    Free = Free
INVARIANTS TypeOK MutualExclusion UnlockNeverBlocks OwnerCleanup ListExact
SYMMETRY HeapAndIds
PROPERTIES ImplementsLockService
