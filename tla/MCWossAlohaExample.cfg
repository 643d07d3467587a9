SPECIFICATION Spec
CONSTANTS
    Selectors = {0, 1, 2, 3, 4, 5}
    MaxNodes = 2
    PktSize = 1000
    MaxPackets = 3
CHECK_DEADLOCK FALSE
INVARIANT SelectorPlacesNodes
