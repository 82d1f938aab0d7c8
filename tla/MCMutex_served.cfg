\* Disciplined clients, each on a connection of its own: every lock call is served.
SPECIFICATION FairSpec
CONSTANTS
    o1 = o1
    o2 = o2
    o3 = o3
    c1 = c1
    c2 = c2
    c3 = c3
    c4 = c4
    Owners = {o1, o2, o3}
    Clients = {c1, c2, c3}
    Conn <- OwnConn
    Ids = {a}
    Lockers = {l1}
    Environment <- Disciplined
    MaxEntries = 3
    NoClient = NoClient
    NoLocker = NoLocker
    NoId = NoId
    Free = Free
PROPERTIES LockGranted
