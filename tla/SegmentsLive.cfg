SPECIFICATION FairSpec
CONSTANTS
    w1 = w1
    w2 = w2
    w3 = w3
    Writes <- MCWrites2
    RecordSize <- MCRecordSize2
    FooterSize = 1
    MaxSegmentSize = 5
    BufferMax = 2
    MaxSegments = 3
    Loop = Loop
    Closer = Closer
    None = None
PROPERTY EveryAppendReturns
