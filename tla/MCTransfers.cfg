SPECIFICATION TransfersSpec
CONSTANTS
    BufLen = 3
    SrcLen = 5
    MaxRead = 2
    None = None
INVARIANTS
    
    BlobsAreSentOnce
    
    
    
PROPERTIES
    TransfersEnd
CHECK_DEADLOCK FALSE
