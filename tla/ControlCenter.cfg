\* Two databases with two deletions and two requests; a site and an API host
\* that a wildcard rule covers; three families of containers, one a database and
\* one with data of its own, two faults and a deployment; two operations of the host and one fault or foreign reboot,
\* besides the reboots they ask for, named as the deletions are so that one
\* permutation serves both.
SPECIFICATION ControlCenterSpec
CONSTANTS
    Dbs = {d1, d2}
    Deletes = {o1, o2}
    Slots = {s1, s2}
    MaxSecret = 2
    MaxDbFaults = 2
    NoDb = NoDb
    NoDelete = NoDelete
    site = site
    api = api
    Hosts = {site, api}
    Rank <- HostRank
    Wild = {api}
    NoHost = NoHost
    web = web
    dbms = dbms
    tool = tool
    php = php
    cron = cron
    database = database
    viewer = viewer
    Families = {web, dbms, tool}
    Services = {php, cron, database, viewer}
    ServicesOf <- FamilyServices
    Databases = {dbms}
    Sensitive = {dbms, tool}
    WasUp = {php, database, viewer}
    Admitted = {php, database}
    MaxUpdateFaults = 2
    MaxDeployments = 1
    Ops = {o1, o2}
    NoOp = NoOp
    MaxHostFaults = 1
SYMMETRY ControlCenterSymmetry
INVARIANTS
    ControlCenterTypeOK PrincipalsBound DropsItsOwn LossIsAccounted
    NeverExposed DamageNeedsCause
    NeverOverNewData SettledIsWhole
    UpgradeAccounted RebootSparesPackages
PROPERTIES
    CheckpointFirst GateBeforeRoute
