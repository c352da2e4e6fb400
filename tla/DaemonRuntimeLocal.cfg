SPECIFICATION Spec
CONSTANTS
    short = short
    long = long
    unknown = unknown
    MaxPeerSlot = 0
    MaxPeerNow = 0
    Rules <- TwoRules
    Names <- TwoNames
    Interval <- TwoIntervals
    AfterActive = 6
    Duration <- TwoDurations
    Autolock <- TwoAutolocks
    ResetAfterIdle = {2}
    ResetCountAfterIdle = {3}
    NoticeLead = 3
    FinalNoticeLead = 1
    ActiveTimes = {1, 2}
    IdleTimes = {1}
    WallTimes = {1, 2}
    DisableTimes = {1, 2}
    Self = 2
    Peers = {}
    Strangers = {1}
    PeerEvents = {}
    MaxSlot = 2
    MaxNow = 3
INVARIANTS
    StatusNamesNextBreak
    NoticeAnnouncesNextBreak
    DisabledTogether
CHECK_DEADLOCK FALSE
