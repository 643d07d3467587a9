SPECIFICATION FairSpec
CONSTANTS
    d1 = d1
    d2 = d2
    d3 = d3
    n1 = n1
    n2 = n2
    n3 = n3
    NoDevice = NoDevice
    NoNode = NoNode
    Device = {d1, d2, d3}
    Node = {n1, n2, n3}
    NodeOf <- MCNodeOf
    Position = {"near", "far"}
    Pdp <- MCPdp
    Threshold <- MCThreshold
    MaxDelay = 3
    MaxTime = 4
    MaxTx = 1
CHECK_DEADLOCK FALSE
PROPERTIES
    EveryReceiverHears
    ImplementsMedium
