\* Connections lost with calls in flight: the token of another client is taken.
SPECIFICATION Spec
CONSTANTS
    o1 = o1
    o2 = o2
    o3 = o3
    c1 = c1
    c2 = c2
    c3 = c3
    c4 = c4
    Owners = {o1, o2, o3}
    Clients = {c1, c2, c3}
    Conn <- OwnConn
    Ids = {a, b}
    Lockers = {l1, l2}
    Environment <- DropInFlight
    MaxEntries = 3
    NoClient = NoClient
    NoLocker = NoLocker
    NoId = NoId
    Free = Free
INVARIANT MutualExclusion
