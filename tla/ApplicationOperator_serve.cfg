SPECIFICATION FairSpec
CONSTANTS
    Jobs = {j1}
    Targets = {x}
    Threads = {t1, t2}
    Worker = worker
    Frontend = {}
    NoJob = NoJob
    NoTarget = NoTarget
PROPERTIES AvailableIsServed
CHECK_DEADLOCK FALSE
