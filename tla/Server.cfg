\* A primary whose current.json is torn does not start again.
SPECIFICATION FairSpec
CONSTANTS
    d1 = d1
    d2 = d2
    r1 = r1
    None = None
    Torn = Torn
    Unmeasured = Unmeasured
    Dicts <- MCDicts
    Posts <- MCPosts
    MaxRows = 2
    MaxErrors = 1
    MinFree = 1
    Hysteresis = 2
    MaxFree = 3
INVARIANTS
    SidecarDecodes
    TableDecodes
    GateSteady
    ForbiddenMeansReadOnly
PROPERTIES
    AllowedWithSpace
    ServerStarts
    GateFollows
CHECK_DEADLOCK FALSE
