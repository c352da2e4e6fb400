SPECIFICATION Spec
CONSTANTS
    Nodes <- TwoNodes
    Plans <- DialledTwice
INVARIANTS
    CollapseLeavesOne
CHECK_DEADLOCK FALSE
