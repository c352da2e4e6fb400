SPECIFICATION LocalSpec
CONSTANTS
    short = short
    long = long
    huge = huge
    unknown = unknown
    MaxPeerSlot = 0
    Rules <- ThreeRules
    Names <- ThreeNames
    Interval <- ThreeIntervals
    AfterActive = 3
    Samples = {1, 2, 7}
    PeerPositions = {}
    PeerOrigins = {}
    MaxSlot = 12
INVARIANTS
    NoRuleOverdue
    AnnouncedBreakIsTheOneStarted
PROPERTIES
    CadenceKept
    PutOffOnlyByALongerBreak
