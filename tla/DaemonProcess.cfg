SPECIFICATION ProcessSpec
CONSTANTS
    MaxNotices = 1
    MaxRequests = 1
    MaxQuits = 1
    MaxInbox = 1
INVARIANTS
    CleanExit
PROPERTIES
    ProcessEnds
CHECK_DEADLOCK FALSE
