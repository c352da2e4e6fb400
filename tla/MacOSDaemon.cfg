SPECIFICATION UndisturbedSpec
CONSTANTS
    short = short
    Rules <- OneRule
    Names <- OneRule
    Interval <- OneInterval
    AfterActive = 1
    Duration <- OneDuration
    Autolock <- OneAutolock
    ResetAfterIdle = {}
    ResetCountAfterIdle = {}
    NoticeLead = 0
    FinalNoticeLead = 0
    Horizon = 1
    MaxSlot = 1
    MaxEvents = 3
    MaxCommands = 2
INVARIANTS
    ThreadsAgree
PROPERTIES
    NoSecondLock
    OverlayReleased
CHECK_DEADLOCK FALSE
