\* A connection that registers two services is lost.
SPECIFICATION Spec
CONSTANTS
    c1 = c1
    c2 = c2
    c3 = c3
    Conns = {c1, c2, c3}
    Watchers = {c3}
    Providers = {c1, c2}
    Types = {"taskQueue", "worker"}
    TaskQueue = "taskQueue"
    MaxRegister = 1
    Environment <- Anything
    Free = Free
INVARIANT NoGhost
CHECK_DEADLOCK FALSE
