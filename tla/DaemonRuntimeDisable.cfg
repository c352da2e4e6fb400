SPECIFICATION FairSpec
CONSTANTS
    short = short
    long = long
    unknown = unknown
    MaxPeerSlot = 1
    MaxPeerNow = 1
    Rules <- OneRule
    Names <- OneRule
    Interval <- OneInterval
    AfterActive = 1
    Duration <- OneDuration
    Autolock <- OneAutolock
    ResetAfterIdle = {}
    ResetCountAfterIdle = {}
    NoticeLead = 0
    FinalNoticeLead = 0
    ActiveTimes = {1}
    IdleTimes = {}
    WallTimes = {1}
    DisableTimes = {1, 2}
    Self = 2
    Peers = {1}
    Strangers = {}
    PeerEvents <- DisablingEvents
    MaxSlot = 1
    MaxNow = 3
INVARIANTS
    TypeOK
    DisabledTogether
PROPERTY
    TimedDisableEnds
CHECK_DEADLOCK FALSE
