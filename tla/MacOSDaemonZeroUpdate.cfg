SPECIFICATION Spec
CONSTANTS
    short = short
    Rules <- OneRule
    Names <- OneRule
    Interval <- OneInterval
    AfterActive = 1
    Duration <- OneDuration
    Autolock <- OneAutolock
    ResetAfterIdle = {}
    ResetCountAfterIdle = {}
    NoticeLead = 0
    FinalNoticeLead = 0
    Horizon = 1
    MaxSlot = 0
    MaxEvents = 3
    MaxCommands = 2
INVARIANT NoZeroUpdateWhileLocked
CHECK_DEADLOCK FALSE
