SPECIFICATION Spec
CONSTANTS
    short = short
    long = long
    unknown = unknown
    MaxPeerSlot = 2
    MaxPeerNow = 1
    Rules <- TwoRules
    Names <- TwoNames
    Interval <- TwoIntervals
    AfterActive = 1
    Duration <- TwoDurations
    Autolock <- TwoAutolocks
    ResetAfterIdle = {}
    ResetCountAfterIdle = {}
    NoticeLead = 0
    FinalNoticeLead = 1
    ActiveTimes = {1}
    IdleTimes = {}
    WallTimes = {1}
    DisableTimes = {}
    Self = 2
    Peers = {1, 3}
    Strangers = {}
    PeerEvents <- AllPeerEvents
    MaxSlot = 2
    MaxNow = 1
INVARIANTS
    CurrentIffPending
    AvailabilityShown
    ActivityWithinWallClock
    NothingIsPassedOn
    LockSurvives
CHECK_DEADLOCK FALSE
