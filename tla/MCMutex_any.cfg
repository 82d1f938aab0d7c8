\* Clients and network may do anything: what the data structures keep.
SPECIFICATION Spec
CONSTANTS
    o1 = o1
    o2 = o2
    o3 = o3
    c1 = c1
    c2 = c2
    c3 = c3
    c4 = c4
    Owners = {o1, o2}
    Clients = {c1, c2, c3}
    Conn <- PairAndOne
    Ids = {a, b}
    Lockers = {l1, l2}
    Environment <- Anything
    MaxEntries = 2
    NoClient = NoClient
    NoLocker = NoLocker
    NoId = NoId
    Free = Free
SYMMETRY HeapAndIds
INVARIANTS CounterExact NoOrphanWaiter
CHECK_DEADLOCK FALSE
