SPECIFICATION Spec
CONSTANTS
    short = short
    Rules <- OneRule
    Names <- OneRule
    Interval <- OneInterval
    AfterActive = 2
    Duration <- OneDuration
    Autolock <- OneAutolock
    ResetAfterIdle = {3}
    ResetCountAfterIdle = {}
    NoticeLead = 0
    FinalNoticeLead = 0
    DisableTimes = {3}
    SleepTimes = {4}
    Jumps <- JumpsBothWays
    MaxReal = 9
    MaxJumped = 2
    MaxSlot = 2
INVARIANTS
    ActiveTimeIsAwake
    CountdownIsHonest
PROPERTIES
    RestResets
    BreakOnTime
    DisableOnTime
CHECK_DEADLOCK FALSE
