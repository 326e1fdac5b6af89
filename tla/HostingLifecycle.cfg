\* One request and its target, two request threads, one outage or ignored error.
SPECIFICATION HostingSpec
CONSTANTS
    Jobs = {j1}
    Targets = {x}
    Threads = {t1, t2}
    Worker = worker
    Frontend = {}
    NoJob = NoJob
    NoTarget = NoTarget
    NoThread = NoThread
    TargetOf <- OneTarget
    MaxOutages = 1
SYMMETRY ThreadSymmetry
INVARIANTS CatalogFollows CancelNotForgotten ExecutedOnce EndedIsDown
PROPERTIES ServedIsGated
CHECK_DEADLOCK FALSE
