SPECIFICATION FairSpec
CONSTANTS
    r1 = r1  r2 = r2  r3 = r3
    w1 = w1  w2 = w2
    zip = zip  big = big  xml = xml
    None = None
    Requests = {r1, r2}
    Workers = {w1}
    Bodies = {big}
    Kind <- MCKind
    MemberCount <- MCMembersOne
    MaxMembers = 1
    QueueSize = 1
    MaxId = 2
    MaxFaults = 0
    HasJournal = FALSE
PROPERTY AllUnpacked
CHECK_DEADLOCK FALSE
