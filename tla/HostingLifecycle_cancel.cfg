\* What the page calls "annullata e verificata", against the operator.
SPECIFICATION HostingSpec
CONSTANTS
    Jobs = {j1}
    Targets = {x}
    Threads = {t1, t2}
    Worker = worker
    Frontend = {}
    NoJob = NoJob
    NoTarget = NoTarget
    NoThread = NoThread
    TargetOf <- OneTarget
    MaxOutages = 1
SYMMETRY ThreadSymmetry
INVARIANT CancelledAndVerified
CHECK_DEADLOCK FALSE
