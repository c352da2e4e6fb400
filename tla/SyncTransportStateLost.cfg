SPECIFICATION Spec
CONSTANTS
    Nodes <- TwoNodes
    Plans <- BothDial
INVARIANTS
    SchedulerStateArrives
CHECK_DEADLOCK FALSE
