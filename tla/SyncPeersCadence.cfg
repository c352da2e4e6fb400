SPECIFICATION PunctualSpec
CONSTANTS
    short = short
    long = long
    Rules <- TwoRules
    Names <- TwoRules
    Interval <- TwoIntervals
    AfterActive = 1
    Duration <- TwoDurations
    Autolock <- TwoAutolocks
    ResetAfterIdle = {}
    ResetCountAfterIdle = {}
    NoticeLead = 0
    FinalNoticeLead = 0
    MaxSlot = 2
    MaxNow = 3
    MaxWire = 2
    MaxLag = 0
    ApartUntil = 0
    MaxApart = 0
INVARIANTS
    SamePosition
CHECK_DEADLOCK FALSE
