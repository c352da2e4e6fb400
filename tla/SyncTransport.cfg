SPECIFICATION Spec
CONSTANTS
    Nodes <- TwoNodes
    Plans <- AllPlans
INVARIANTS
    AnnouncedWhileConnected
    EventsInOrder
    EndsAgree
    StrangersExchangeNothing
PROPERTIES
    EventuallyConnected
CHECK_DEADLOCK FALSE
