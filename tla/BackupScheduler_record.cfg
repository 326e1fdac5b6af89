\* The documented terminal state of a claimed job, against set -e.
SPECIFICATION HealthySpec
CONSTANTS
    Replicas = {r1}
    Portals = {portal}
    Operators = {}
    Procs = {r1, portal}
    NoProc = NoProc
    Jobs = {1, 2}
    KeyOf <- Keys
    PrincipalOf <- Requesters
    LeaseIds = {l1}
    MaxOutstanding = 2
    MaxPerPrincipal = 1
    Window = 1
    MaxConcurrency = 1
    MaxTerminal = 1
    MaxAge = 1
    MaxLedger = 4
    MaxScan = 8
    MaxClock = 0
PROPERTY
    ClaimedJobIsRecorded
CHECK_DEADLOCK FALSE
