\* Two processes, three jobs, one slot: every call with a crash at every write
\* and the clock standing still, or admissions and a clock of three ticks.
SPECIFICATION QueueSpec
SYMMETRY ProcSymmetry
CONSTANTS
    Procs = {p1, p2}
    NoProc = NoProc
    Jobs = {1, 2, 3}
    KeyOf <- ThreeKeys
    PrincipalOf <- ThreePrincipals
    LeaseIds = {l1}
    MaxOutstanding = 2
    MaxPerPrincipal = 3
    Window = 1
    MaxConcurrency = 1
    MaxTerminal = 1
    MaxAge = 1
    MaxLedger = 4
    MaxScan = 8
    MaxClock = 3
INVARIANTS
    TypeOK
    NoDuplicateActive
    ConcurrencyBudget
    RateKept
PROPERTIES
    StrandedFailsClosed
    ActiveNeverLost
