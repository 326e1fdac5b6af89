SPECIFICATION MixedSpec
CONSTANTS
    offsite = offsite
    backup = backup
    drill = drill
    NoRequest = NoRequest
    Requests = {offsite, backup}
    Issued <- IssuedAtStart
    Plan <- Plans
    PhaseEnds <- DrillPhaseEnds
    Claims <- BackupClaims
    Lifetime = 0
    Retention = 0
    MaxReplay = 2
    MaxClock = 0
    MaxFaults = 1
INVARIANTS CompletedMeansDelivered
CHECK_DEADLOCK FALSE
