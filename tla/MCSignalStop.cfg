CONSTANTS
    p1 = p1
    p2 = p2
    p3 = p3
    p4 = p4
    Processes = {p1, p2, p3}
    NoOne = NoOne
    HostOf <- MCHostOf
    PidOf <- MCPidOf
    Strangers = FALSE
    Stops = {"signal"}
    MaxFaults = 0

SPECIFICATION Spec

INVARIANT OneWriter

CHECK_DEADLOCK FALSE
