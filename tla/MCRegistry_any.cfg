\* Any order of calls and losses, two services for each of two connections.
SPECIFICATION Spec
CONSTANTS
    c1 = c1
    c2 = c2
    c3 = c3
    Conns = {c1, c2, c3}
    Watchers = {c3}
    Providers = {c1, c2}
    Types = {"taskQueue", "worker"}
    TaskQueue = "taskQueue"
    MaxRegister = 1
    Environment <- Anything
    Free = Free
SYMMETRY Others
INVARIANTS TypeOK OpenKept NoLostUpdate
CHECK_DEADLOCK FALSE
