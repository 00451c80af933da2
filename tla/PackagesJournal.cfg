SPECIFICATION Spec
CONSTANTS
    r1 = r1  r2 = r2  r3 = r3
    w1 = w1  w2 = w2
    zip = zip  big = big  xml = xml
    None = None
    Requests = {r1, r2}
    Workers = {w1}
    Bodies = {big, zip, xml}
    Kind <- MCKind
    MemberCount <- MCMembers
    MaxMembers = 2
    QueueSize = 1
    MaxId = 2
    MaxFaults = 1
    HasJournal = TRUE
SYMMETRY SameRequests
INVARIANTS RowMatchesFiles AckedJournaled JournalSound RebuildSound
CHECK_DEADLOCK FALSE
