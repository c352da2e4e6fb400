SPECIFICATION PunctualSpec
CONSTANTS
    short = short
    long = long
    Rules <- TwoRules
    Names <- TwoRules
    Interval <- TwoIntervals
    AfterActive = 1
    Duration <- TwoDurations
    Autolock <- TwoAutolocks
    ResetAfterIdle = {}
    ResetCountAfterIdle = {}
    NoticeLead = 0
    FinalNoticeLead = 0
    MaxSlot = 3
    MaxNow = 5
    MaxWire = 2
    MaxLag = 1
    ApartUntil = 1
    MaxApart = 1
INVARIANTS
    SameBreak
    BothInBreak
    SameSlot
CHECK_DEADLOCK FALSE
