SPECIFICATION Spec
CONSTANTS
    ReadTimeout = 2
    ShutdownTimeout = 1
    HeartbeatTimeout = 4
    ZeroTimeout = 1
    BreakLength = 6
    Faults = {"protocol hangs", "main hangs", "helper stops", "helper dies", "backend hangs", "daemon dies"}
    MaxFaults = 1
    MaxBreaks = 2
INVARIANT ReleasedByDeadline
CHECK_DEADLOCK FALSE
