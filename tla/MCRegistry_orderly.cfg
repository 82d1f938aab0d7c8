\* Two services and a watcher; one is a router. Connections behave.
SPECIFICATION FairSpec
CONSTANTS
    c1 = c1
    c2 = c2
    c3 = c3
    Conns = {c1, c2, c3}
    Watchers = {c3}
    Providers = {c1, c2}
    Types = {"taskQueue", "worker"}
    TaskQueue = "taskQueue"
    MaxRegister = 1
    Environment <- Orderly
    Free = Free
INVARIANTS NoGhost
PROPERTIES UpdateReaches LostRouterWiped
CHECK_DEADLOCK FALSE
