SPECIFICATION Spec
CONSTANTS
    short = short
    long = long
    huge = huge
    unknown = unknown
    MaxPeerSlot = 3
    Rules <- TwoRules
    Names <- TwoNames
    Interval <- TwoIntervals
    AfterActive = 2
    Samples = {1, 2}
    PeerPositions <- WirePositions
    PeerOrigins <- WireOrigins
    MaxSlot = 4
INVARIANTS
    PositionIsWireValid
    MergeOrderIrrelevant
PROPERTY
    OnlyResetRewinds
