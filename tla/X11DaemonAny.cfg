SPECIFICATION Spec
CONSTANTS
    short = short
    Rules <- OneRule
    Names <- OneRule
    Interval <- OneInterval
    AfterActive = 1
    Duration <- OneDuration
    Autolock <- OneAutolock
    ResetAfterIdle = {}
    ResetCountAfterIdle = {}
    NoticeLead = 0
    FinalNoticeLead = 0
    RetryLimit = 1
    Self = 2
    Peers = {1, 3}
    PeerEvents <- AllPeerEvents
    MaxRequests = 1
    Horizon = 1
    MaxSlot = 0
    MaxEvents = 3
    MaxCommands = 2
PROPERTY
    BreakResolved
CHECK_DEADLOCK FALSE
