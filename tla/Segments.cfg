SPECIFICATION Spec
CONSTANTS
    w1 = w1
    w2 = w2
    w3 = w3
    Writes <- MCWrites
    RecordSize <- MCRecordSize
    FooterSize = 1
    MaxSegmentSize = 5
    BufferMax = 2
    MaxSegments = 3
    Loop = Loop
    Closer = Closer
    None = None
INVARIANTS
    AckedSurvives
    NoSharedLocation
    FilesBounded
PROPERTIES
    OlderSegmentsFrozen
