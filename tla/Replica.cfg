SPECIFICATION FairSpec
CONSTANTS
    r1 = r1
    r2 = r2
    Absent = Absent
    Changed = Changed
    Readers <- MCReaders
    MaxSegment = 1
    MaxRecords = 2
    MaxFaults = 2
INVARIANTS
    CoveredReadable
    NoStaleHandle
PROPERTY
    ReplicaConverges
