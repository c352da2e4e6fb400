SPECIFICATION UndisturbedSpec
CONSTANTS
    short = short
    Rules <- OneRule
    Names <- OneRule
    Interval <- OneInterval
    AfterActive = 1
    Duration <- OneDuration
    Autolock <- OneAutolock
    ResetAfterIdle = {}
    ResetCountAfterIdle = {}
    NoticeLead = 0
    FinalNoticeLead = 0
    RetryLimit = 2
    Self = 2
    Peers = {1, 3}
    PeerEvents <- AllPeerEvents
    MaxRequests = 1
    Horizon = 1
    MaxSlot = 1
    MaxEvents = 3
    MaxCommands = 2
INVARIANTS
    ThreadsAgree
    BreakRunsItsCourse
PROPERTIES
    OverlayReleased
    BreakResolved
CHECK_DEADLOCK FALSE
