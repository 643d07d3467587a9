SPECIFICATION FairSpec
CONSTANTS
    Positions = {0, 420, 840}
    Modes = {TRUE, FALSE}
    MaxTime = 5
    MaxWaypoints = 3
INVARIANTS
    TypeOK
    OnTrack
    SpansPositive
    RestNotifiedOnce
    
PROPERTIES
    Settles
CHECK_DEADLOCK FALSE
