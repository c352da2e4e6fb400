SPECIFICATION Spec
CONSTANTS
    short = short
    long = long
    Rules <- TwoRules
    Names <- TwoRules
    Interval <- TwoIntervals
    AfterActive = 1
    Duration <- TwoDurations
    Autolock <- TwoAutolocks
    ResetAfterIdle = {}
    ResetCountAfterIdle = {}
    NoticeLead = 0
    FinalNoticeLead = 0
    MaxSlot = 2
    MaxNow = 3
    MaxWire = 2
    MaxLag = 1
    ApartUntil = 0
    MaxApart = 0
INVARIANTS
    BothInBreak
CHECK_DEADLOCK FALSE
