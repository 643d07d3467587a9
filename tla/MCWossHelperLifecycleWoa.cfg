SPECIFICATION Spec
CONSTANTS
    PropModel = {p1, p2}
    Builds = {"debug", "optimized"}
    None = None
    MaxSettings = 3
CHECK_DEADLOCK FALSE
PROPERTY WoaDbTypeApplied
