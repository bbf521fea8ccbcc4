SPECIFICATION FairEngineSpec
CONSTANTS
    n1 = n1
    n2 = n2
    x = x
    d = d
    Objects = {x}
    NetWorkers = {n1, n2}
    DbWorkers = {d}
    Requests = 2
    Abandons = 1
    Backlog = 1
INVARIANTS
    OneRefreshEach
    NobodySleepsBesideWork
PROPERTIES
    AllThreadsEnd
CHECK_DEADLOCK FALSE
