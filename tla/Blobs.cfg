SPECIFICATION FairSpec
CONSTANTS
    t1 = t1  t2 = t2  a = a  b = b  e = e
    None = None
    Txs <- MCTxs
    Contents <- MCContents
    Original <- MCOriginal
    Members <- MCMembers
    ErrText = e
INVARIANTS
    RefCountAccounted
    
PROPERTIES
    BlobsStable
    EveryRequestEnds
CHECK_DEADLOCK FALSE
