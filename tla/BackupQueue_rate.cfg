\* The rate window of the contract, by the instants of admission.
SPECIFICATION QueueSpec
SYMMETRY ProcSymmetry
CONSTANTS
    Procs = {p1, p2}
    NoProc = NoProc
    Jobs = {1, 2, 3}
    KeyOf <- ThreeKeys
    PrincipalOf <- ThreePrincipals
    LeaseIds = {l1}
    MaxOutstanding = 2
    MaxPerPrincipal = 3
    Window = 1
    MaxConcurrency = 1
    MaxTerminal = 1
    MaxAge = 1
    MaxLedger = 4
    MaxScan = 8
    MaxClock = 3
INVARIANT SlidingWindowKept
