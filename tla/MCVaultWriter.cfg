CONSTANTS
    p1 = p1
    p2 = p2
    p3 = p3
    p4 = p4
    Processes = {p1, p2, p3, p4}
    NoOne = NoOne
    HostOf <- MCHostOf
    PidOf <- MCPidOf
    Strangers = TRUE
    Stops = {"abort", "signal"}
    MaxFaults = 1

SPECIFICATION Spec

INVARIANT SingleWriter
INVARIANT NoRecordLeftBehind
PROPERTY LiveRecordStands

SYMMETRY Alike

CHECK_DEADLOCK FALSE
