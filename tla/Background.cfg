\* Two scheduler replicas, one portal, one operator and one slot, with every
\* fault or with none; or one run of four events, one browser over two
\* connections of which one may be cut, a queue of one event and a log of three.
SPECIFICATION BackgroundSpec
CONSTANTS
    Replicas = {s1, s2}
    Portals = {portal}
    Operators = {op}
    Procs = {s1, s2, portal, op}
    NoProc = NoProc
    Jobs = {1, 2}
    KeyOf <- Keys
    PrincipalOf <- Requesters
    LeaseIds = {l1}
    MaxOutstanding = 2
    MaxPerPrincipal = 1
    Window = 1
    MaxConcurrency = 1
    MaxTerminal = 1
    MaxAge = 1
    MaxLedger = 4
    MaxScan = 8
    MaxClock = 0
    r1 = r1
    StatusRuns = {r1}
    Watchers = {w1}
    Conns = {k1, k2}
    WatchedRun <- OnlyRun
    Subject <- OnlySubject
    LastEvent = 4
    Delayed = TRUE
    MaxSubscribers = 2
    MaxPerSubject = 2
    MaxPerRun = 2
    MaxQueue = 1
    LogLimit = 3
    MaxCuts = 1
    MaxAppendFaults = 1
    NoRun = NoRun
    NoConn = NoConn
INVARIANTS
    BackgroundTypeOK ExecutedAtMostOnce
PROPERTIES
    HealthyDrains
    SeenInOrder StreamEnds
CHECK_DEADLOCK FALSE
