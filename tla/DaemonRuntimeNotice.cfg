SPECIFICATION Spec
CONSTANTS
    short = short
    long = long
    unknown = unknown
    MaxPeerSlot = 1
    MaxPeerNow = 0
    Rules <- OneRule
    Names <- OneRule
    Interval <- OneInterval
    AfterActive = 4
    Duration <- OneDuration
    Autolock <- OneAutolock
    ResetAfterIdle = {}
    ResetCountAfterIdle = {}
    NoticeLead = 3
    FinalNoticeLead = 1
    ActiveTimes = {1}
    IdleTimes = {1}
    WallTimes = {1}
    DisableTimes = {}
    Self = 2
    Peers = {1}
    Strangers = {}
    PeerEvents <- PositionEvents
    MaxSlot = 2
    MaxNow = 0
INVARIANT
    NoticeRemovedOnceStarted
CHECK_DEADLOCK FALSE
