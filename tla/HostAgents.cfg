\* An offsite synchronisation and a backup job against the clock, or with a
\* two-phase drill and without it, two faults; or one clone request on two
\* threads, every fault.
SPECIFICATION AgentsSpec
CONSTANTS
    offsite = offsite
    backup = backup
    drill = drill
    NoRequest = NoRequest
    Requests = {offsite, backup, drill}
    Issued <- IssuedAtStart
    Plan <- Plans
    PhaseEnds <- DrillPhaseEnds
    Claims <- BackupClaims
    Lifetime = 1
    Retention = 1
    MaxReplay = 2
    MaxClock = 2
    MaxFaults = 2
    Clones = {j1}
    Targets = {x}
    Threads = {t1, t2}
    Worker = worker
    Frontend = {j1}
    NoJob = NoJob
    NoTarget = NoTarget
INVARIANTS
    AgentsTypeOK AtMostOnce WriteAhead EffectAccounted
PROPERTIES
    ManualStays RecoveryConverges InFlightSettles
CHECK_DEADLOCK FALSE
