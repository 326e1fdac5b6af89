\* Two processes and three calls on a document and a log, one fault, one tick.
SPECIFICATION StoreSpec
CONSTANTS
    StoreProcs = {p1, p2}
    JsonSets = {doc}
    LogSets = {log}
    Calls = {c1, c2, c3}
    c1 = c1
    c2 = c2
    c3 = c3
    Kinds <- CallKinds
    StaleLock = 0
    LockTimeout = 1
    RecordLimit = 2
    MaxStoreTime = 1
    MaxStoreFaults = 1
    NoCall = NoCall
    NoProc = NoProc
INVARIANTS StoreTypeOK ImportRestores
PROPERTIES StoreIsAtomic TornFailsClosed
SYMMETRY StoreSymmetry
CHECK_DEADLOCK FALSE
