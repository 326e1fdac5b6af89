\* One operation of the host and no fault.
SPECIFICATION HostSpec
CONSTANTS
    Ops = {o1}
    NoOp = NoOp
    MaxHostFaults = 0
INVARIANT WaitingIsScheduled
CHECK_DEADLOCK FALSE
